---- MODULE Spec2Model ----
(***************************************************************************)
(* X402FacilitatorServer (src/src/facilitator/X402FacilitatorServer.ts,    *)
(* the class of lines 10-405): verify(), settle() and the nonce ledger,    *)
(* as a state machine.  Every call is an async function: it runs           *)
(* synchronously up to its next await, and other calls interleave at the   *)
(* awaits only.  One action is one such synchronous run.                   *)
(***************************************************************************)
EXTENDS Integers, Sequences, FiniteSets, TLC

\* -------------------------------------------------------------- bounds
\* The clock runs over 0..MaxTime (seconds).
MaxTime == 2
\* Ledger transfers counted per payload are capped at MaxTransfers.
MaxTransfers == 2

\* The call slots: at most this many calls are in flight at once.
Calls == {"c1", "c2"}

\* ------------------------------------------------------ program constants
X402Version == 1
ExpectedDecimals == 6
GraceSeconds == 30
TransferOpcode == 3
MinDataLength == 9
maxAttempts == 3

\* ------------------------------------------------------------ data model
\* A JS value of authorization.value / requirements.maxAmountRequired: the
\* comparison !== is sensitive to the type, so the type is part of the value.
Str(n) == [t |-> "string", n |-> n]
Num(n) == [t |-> "number", n |-> n]

\* Number(authorization.value)
Number(v) == v.n

\* bigint.toString()
BigIntToString(n) == Str(n)

NETWORK_ID_PREFIX == "solana"

\* networkToId, for the networks of type SolanaNetwork.
networkToId(network) ==
    CASE network = "mainnet-beta" -> "solana-mainnet-beta"
      [] network = "testnet" -> "solana-testnet"
      [] OTHER -> "solana-devnet"

SolanaNetworks == {"devnet", "mainnet-beta"}
NetworkIds == {networkToId(n) : n \in SolanaNetworks}

\* ----------------------------------------------------- the external ledger
\* getParsedAccountInfo(mint): the decimals of a mint account, 0 - 1 when the
\* account does not exist.
NotFound == 0 - 1
MintDecimals(asset) ==
    CASE asset = "USDC" -> 6
      [] asset = "WSOL" -> 9
      [] OTHER -> NotFound

\* new PublicKey(address) throws on a string that is no base58 key.
IsPublicKey(address) == address # "notakey"

\* getParsedAccountInfo(token account): owner and mint, or no account.
NoAccount == [owner |-> "", mint |-> ""]
ChainAccounts(account) ==
    CASE account = "ataP" -> [owner |-> "P", mint |-> "USDC"]
      [] account = "ataQ" -> [owner |-> "Q", mint |-> "USDC"]
      [] account = "ataPw" -> [owner |-> "P", mint |-> "WSOL"]
      [] OTHER -> NoAccount

\* The serialized transactions a payload may carry (signedTransaction).  deser:
\* Transaction.from() parses it; sigOk: verifySignatures(); instructions: in order.
TokenIx(amountBytes, dest) ==
    [programId |-> "TOKEN_PROGRAM_ID", data |-> <<3>> \o amountBytes,
     keys |-> <<"ataA", dest, "A">>]

\* The instruction ix with another source account and owner (the signer).
PaidBy(ix, source, owner) == [ix EXCEPT !.keys = <<source, @[2], owner>>]

Transactions ==
    [id \in {"txGood", "txAmt2", "txBadSig", "txGarbage", "txNoToken", "txToQ",
             "txToPw", "txToNone", "txOpcode", "txShort", "txTwo",
             "txGoodE", "txAmt2E", "txBadSigE"} |->
       CASE id = "txGoodE" ->
              [deser |-> TRUE, sigOk |-> TRUE,
               instructions |->
                 << PaidBy(TokenIx(<<1, 0, 0, 0, 0, 0, 0, 0>>, "ataP"), "ataE", "E") >>]
         [] id = "txAmt2E" ->
              [deser |-> TRUE, sigOk |-> TRUE,
               instructions |->
                 << PaidBy(TokenIx(<<2, 0, 0, 0, 0, 0, 0, 0>>, "ataP"), "ataE", "E") >>]
         [] id = "txBadSigE" ->
              [deser |-> TRUE, sigOk |-> FALSE,
               instructions |->
                 << PaidBy(TokenIx(<<1, 0, 0, 0, 0, 0, 0, 0>>, "ataP"), "ataE", "E") >>]
         [] id = "txGood" ->
              [deser |-> TRUE, sigOk |-> TRUE,
               instructions |-> << TokenIx(<<1, 0, 0, 0, 0, 0, 0, 0>>, "ataP") >>]
         [] id = "txAmt2" ->
              [deser |-> TRUE, sigOk |-> TRUE,
               instructions |-> << TokenIx(<<2, 0, 0, 0, 0, 0, 0, 0>>, "ataP") >>]
         [] id = "txToQ" ->
              [deser |-> TRUE, sigOk |-> TRUE,
               instructions |-> << TokenIx(<<1, 0, 0, 0, 0, 0, 0, 0>>, "ataQ") >>]
         [] id = "txToPw" ->
              [deser |-> TRUE, sigOk |-> TRUE,
               instructions |-> << TokenIx(<<1, 0, 0, 0, 0, 0, 0, 0>>, "ataPw") >>]
         [] id = "txToNone" ->
              [deser |-> TRUE, sigOk |-> TRUE,
               instructions |-> << TokenIx(<<1, 0, 0, 0, 0, 0, 0, 0>>, "ataNone") >>]
         [] id = "txOpcode" ->
              [deser |-> TRUE, sigOk |-> TRUE,
               instructions |-> << [programId |-> "TOKEN_PROGRAM_ID",
                                    data |-> <<4, 1, 0, 0, 0, 0, 0, 0, 0>>,
                                    keys |-> <<"ataA", "ataP", "A">>] >>]
         [] id = "txShort" ->
              [deser |-> TRUE, sigOk |-> TRUE,
               instructions |-> << TokenIx(<<1>>, "ataP") >>]
         [] id = "txTwo" ->
              [deser |-> TRUE, sigOk |-> TRUE,
               instructions |-> << TokenIx(<<1, 0, 0, 0, 0, 0, 0, 0>>, "ataP"),
                                   TokenIx(<<2, 0, 0, 0, 0, 0, 0, 0>>, "ataQ") >>]
         [] id = "txBadSig" ->
              [deser |-> TRUE, sigOk |-> FALSE,
               instructions |-> << TokenIx(<<1, 0, 0, 0, 0, 0, 0, 0>>, "ataP") >>]
         [] id = "txNoToken" ->
              [deser |-> TRUE, sigOk |-> TRUE,
               instructions |-> << [programId |-> "SystemProgram", data |-> <<2>>,
                                    keys |-> <<"A", "P">>] >>]
         [] OTHER ->
              [deser |-> FALSE, sigOk |-> FALSE, instructions |-> << >>]]

\* ------------------------------------------------------------- payloads
\* A decoded payment payload.  hasAuth: payload.authorization is present;
\* validBefore 0: missing; nonce "": missing; tx "": no signedTransaction;
\* lvbh 0: no transactionMeta.lastValidBlockHeight; from: authorization.from,
\* the payer, "A" unless set otherwise.
Payload(ver, sch, net, auth, val, to, asset, vb, nonce, tx, lvbh) ==
    [x402Version |-> ver, scheme |-> sch, network |-> net, hasAuth |-> auth,
     value |-> val, to |-> to, asset |-> asset, validBefore |-> vb,
     nonce |-> nonce, tx |-> tx, lvbh |-> lvbh, from |-> "A"]

Requirements(sch, net, amt, payTo, asset, timeout) ==
    [scheme |-> sch, network |-> net, maxAmountRequired |-> amt, payTo |-> payTo,
     asset |-> asset, maxTimeoutSeconds |-> timeout]

NoPayload == Payload(0, "", "", FALSE, Str(0), "", "", 0, "", "", 0)
NoRequirements == Requirements("", "", Str(0), "", "", 0)

\* ------------------------------------------------------------ the state
VARIABLES
    networkId,     \* this.networkId, set by the constructor
    agentWallet,   \* this.agentWallet is set (a signing key was loaded)
    seenNonces,    \* this.seenNonces: nonce -> expiry
    clock,         \* Math.floor(Date.now() / 1000)
    calls,         \* the verify()/settle() calls in flight, by slot
    landed,        \* ledger: the pre-signed transactions that were processed
    transfers,     \* ledger: transfers executed, counted per settled payload
    registered,    \* history: nonce -> the latest expiry the ledger recorded for it
    validReturned, \* history: nonce -> the latest expiry a verify() returned valid for
    result,        \* history: the call that returned last, with its result
    connection,    \* this.connection, with the handles created and used so far
    peerNonces,    \* this.seenNonces of a second facilitator instance
    pureCall,      \* the last call of a function without awaits, with its value
    timers,        \* the interval timers of the JS runtime: created, running
    wrapper,       \* a ConversationWrapper: its fields, and its last call
    marketplace,   \* the marketplace backend: conversations, undelivered items
    polls,         \* the poll callbacks in flight, and what they fetched and handled
    consumer,      \* a MarketplaceConsumer with its SettlementAgent
    a2aServer,     \* an A2AServer: handlers, tasks, the request being handled
    provider       \* a MarketplaceProvider: its fields, and its last call

vars == <<networkId, agentWallet, seenNonces, clock, calls, landed, transfers,
          registered, validReturned, result, connection, peerNonces, pureCall,
          timers, wrapper, marketplace, polls, consumer, a2aServer, provider>>

\* The state of the X402FacilitatorServer and of its ledger.
facilitatorVars ==
    <<networkId, agentWallet, seenNonces, clock, calls, landed, transfers,
      registered, validReturned, result, connection, peerNonces, pureCall>>

\* The state of the marketplace classes, of the backend and of the timers.
marketplaceVars ==
    <<timers, wrapper, marketplace, polls, consumer, a2aServer, provider>>

\* ------------------------------------------------------------- the connection
\* Line 21: the constructor creates the one connection of the instance, handle 1.
NewConnection == [handle |-> 1, created |-> 1, used |-> {}]

Access_reconnect(conn) ==
    [handle |-> conn.created + 1, created |-> conn.created + 1,
     used |-> conn.used \cup {conn.created + 1}]

\* A ledger access goes through this.connection (lines 129, 233, 275, 335, 368,
\* 377): the handle of the instance is used, none is created.
Access(conn) == [conn EXCEPT !.used = @ \cup {conn.handle}]

\* No function without awaits has been called yet.
NoPureCall == [fn |-> "", args |-> << >>, value |-> "", done |-> FALSE, count |-> 0]

\* -------------------------------------------------- validatePaymentLocally
\* The checks of lines 65-116, each as the condition under which the payload
\* passes it.
\* The version check accepting every version from 1 on.
VersionOk_from1(p) == p.x402Version >= 1

VersionOk(p) == p.x402Version = X402Version

SchemeOk(p, r) == p.scheme = r.scheme

NetworkOk(p, net) == p.network = net

AuthorizationPresent(p) == p.hasAuth

\* The amount check accepting an overpayment.
AmountOk_atLeast(p, r) ==
    p.value.t = r.maxAmountRequired.t /\ p.value.n >= r.maxAmountRequired.n

AmountOk(p, r) == p.value = r.maxAmountRequired

RecipientOk(p, r) == p.to = r.payTo

AssetOk(p, r) == p.asset = r.asset

NotExpired(p, now) == ~(p.validBefore = 0 \/ now > p.validBefore)

\* The window check rejecting a validity that ends exactly at the bound.
WindowOk_strict(p, r, now) ==
    ~(r.maxTimeoutSeconds # 0
        /\ p.validBefore - now >= r.maxTimeoutSeconds + GraceSeconds)

WindowOk(p, r, now) ==
    ~(r.maxTimeoutSeconds # 0
        /\ p.validBefore - now > r.maxTimeoutSeconds + GraceSeconds)

NoncePresent(p) == p.nonce # ""

\* The header checks with the expiry check first.
HeaderChecks_expiryFirst(p, r, net, now) ==
    IF p.hasAuth /\ (p.validBefore = 0 \/ now > p.validBefore) THEN "Payment expired"
    ELSE IF p.x402Version # 1 THEN "Invalid x402 version"
    ELSE IF p.scheme # r.scheme THEN "Scheme mismatch"
    ELSE IF p.network # net THEN "Network mismatch"
    ELSE IF ~p.hasAuth THEN "No authorization found"
    ELSE IF p.value # r.maxAmountRequired THEN "Amount mismatch"
    ELSE IF p.to # r.payTo THEN "Recipient mismatch"
    ELSE IF p.asset # r.asset THEN "Asset mismatch"
    ELSE IF r.maxTimeoutSeconds # 0
            /\ p.validBefore - now > r.maxTimeoutSeconds + 30
         THEN "Invalid validity window"
    ELSE IF p.nonce = "" THEN "Missing nonce"
    ELSE ""

\* Lines 65-116 in the order of the code: the reason of the first check that
\* fails, "" when the payload passes them all.
HeaderChecks(p, r, net, now) ==
    IF ~VersionOk(p) THEN "Invalid x402 version"
    ELSE IF ~SchemeOk(p, r) THEN "Scheme mismatch"
    ELSE IF ~NetworkOk(p, net) THEN "Network mismatch"
    ELSE IF ~AuthorizationPresent(p) THEN "No authorization found"
    ELSE IF ~AmountOk(p, r) THEN "Amount mismatch"
    ELSE IF ~RecipientOk(p, r) THEN "Recipient mismatch"
    ELSE IF ~AssetOk(p, r) THEN "Asset mismatch"
    ELSE IF ~NotExpired(p, now) THEN "Payment expired"
    ELSE IF ~WindowOk(p, r, now) THEN "Invalid validity window"
    ELSE IF ~NoncePresent(p) THEN "Missing nonce"
    ELSE ""

\* cleanupNonces deleting the entries that expire within the next second too.
cleanupNonces_eager(nonces, now) ==
    [n \in {m \in DOMAIN nonces : ~(nonces[m] <= now + 1)} |-> nonces[n]]

\* cleanupNonces deleting nothing.
cleanupNonces_keep(nonces, now) == nonces

\* cleanupNonces keeping the entries that expire at now.
cleanupNonces_strict(nonces, now) ==
    [n \in {m \in DOMAIN nonces : ~(nonces[m] < now)} |-> nonces[n]]

\* cleanupNonces at clock value now: every entry with expiry <= now is deleted.
cleanupNonces(nonces, now) ==
    [n \in {m \in DOMAIN nonces : ~(nonces[m] <= now)} |-> nonces[n]]

\* seenNonces.set losing the entry.
NonceSet_lost(nonces, nonce, expiry) == nonces

\* this.seenNonces.set(nonce, expiry)
NonceSet(nonces, nonce, expiry) ==
    [n \in DOMAIN nonces \cup {nonce} |-> IF n = nonce THEN expiry ELSE nonces[n]]

\* The replay check without its membership test.
ReplayCheck_noTest(nonces, p, now) ==
    [reason |-> "",
     nonces |-> [n \in DOMAIN nonces \cup {p.nonce} |->
                   IF n = p.nonce THEN p.validBefore ELSE nonces[n]],
     registered |-> TRUE]

\* The replay check extending the recorded expiry of a nonce it rejects.
ReplayCheck_extends(nonces, p, now) ==
    LET swept == cleanupNonces(nonces, now) IN
    IF p.nonce \in DOMAIN swept
    THEN [reason |-> "Replay detected",
          nonces |-> NonceSet(swept, p.nonce,
                              IF swept[p.nonce] >= p.validBefore
                              THEN swept[p.nonce] ELSE p.validBefore),
          registered |-> FALSE]
    ELSE [reason |-> "",
          nonces |-> NonceSet(swept, p.nonce, p.validBefore),
          registered |-> TRUE]

\* Lines 118-124: sweep, membership test, registration.  now is the clock value
\* cleanupNonces reads (its own Date.now()).
ReplayCheck(nonces, p, now) ==
    LET swept == cleanupNonces(nonces, now) IN
    IF p.nonce \in DOMAIN swept
    THEN [reason |-> "Replay detected", nonces |-> swept, registered |-> FALSE]
    ELSE [reason |-> "",
          nonces |-> NonceSet(swept, p.nonce, p.validBefore),
          registered |-> TRUE]

\* ------------------------------------------------ validateSignedTransaction
\* buffer.readBigUInt64LE(0) of the eight bytes given, least significant first.
RECURSIVE readU64(_)
readU64(bytes) ==
    IF bytes = << >> THEN 0 ELSE Head(bytes) + 256 * readU64(Tail(bytes))

\* transaction.instructions.find(ix => ix.programId.equals(TOKEN_PROGRAM_ID)):
\* the index of the first such instruction, 0 when there is none.
FindTokenInstruction(ixs) ==
    LET hits == {i \in 1..Len(ixs) : ixs[i].programId = "TOKEN_PROGRAM_ID"} IN
    IF hits = {} THEN 0 ELSE CHOOSE i \in hits : \A j \in hits : i <= j

\* validateSignedTransaction without the comparison of the amounts.
SignedTransactionChecks_noAmount(p) ==
    LET tx == Transactions[p.tx]
        i == FindTokenInstruction(tx.instructions)
        ix == tx.instructions[i]
    IN  IF ~tx.deser THEN "Transaction deserialization failed"
        ELSE IF ~tx.sigOk THEN "Invalid transaction signature"
        ELSE IF i = 0 THEN "Missing token transfer instruction"
        ELSE IF Len(ix.data) < 9 \/ ix.data[1] # 3
             THEN "Invalid transfer instruction data"
        ELSE IF Len(ix.keys) < 2 THEN "Missing destination account"
        ELSE ""

\* validateSignedTransaction comparing the owner of the source account with
\* authorization.from.
SignedTransactionChecks_payer(p) ==
    LET tx == Transactions[p.tx]
        i == FindTokenInstruction(tx.instructions)
        ix == tx.instructions[i]
    IN  IF ~tx.deser THEN "Transaction deserialization failed"
        ELSE IF ~tx.sigOk THEN "Invalid transaction signature"
        ELSE IF i = 0 THEN "Missing token transfer instruction"
        ELSE IF Len(ix.data) < MinDataLength \/ ix.data[1] # TransferOpcode
             THEN "Invalid transfer instruction data"
        ELSE IF BigIntToString(readU64(SubSeq(ix.data, 2, 9))) # p.value
             THEN "Transfer amount mismatch"
        ELSE IF Len(ix.keys) < 2 THEN "Missing destination account"
        ELSE IF Len(ix.keys) >= 3 /\ ix.keys[3] # p.from THEN "Payer mismatch"
        ELSE ""

\* Lines 308-333, up to the await of the destination lookup: the reason of the
\* first failure, "" when the lookup is reached.
SignedTransactionChecks(p) ==
    LET tx == Transactions[p.tx]
        i == FindTokenInstruction(tx.instructions)
        ix == tx.instructions[i]
    IN  IF ~tx.deser THEN "Transaction deserialization failed"
        ELSE IF ~tx.sigOk THEN "Invalid transaction signature"
        ELSE IF i = 0 THEN "Missing token transfer instruction"
        ELSE IF Len(ix.data) < MinDataLength \/ ix.data[1] # TransferOpcode
             THEN "Invalid transfer instruction data"
        ELSE IF BigIntToString(readU64(SubSeq(ix.data, 2, 9))) # p.value
             THEN "Transfer amount mismatch"
        ELSE IF Len(ix.keys) < 2 THEN "Missing destination account"
        ELSE ""

\* instruction.keys[1].pubkey of the token instruction.
Destination(p) ==
    LET tx == Transactions[p.tx]
    IN  tx.instructions[FindTokenInstruction(tx.instructions)].keys[2]

\* Lines 335-351, after the destination lookup returned account.
DestinationChecks(p, account) ==
    IF account = NoAccount THEN "Destination account not found"
    ELSE IF account.owner # p.to THEN "Destination owner mismatch"
    ELSE IF account.mint # p.asset THEN "Destination mint mismatch"
    ELSE ""

\* Lines 274-285, after the mint lookup returned decimals.
MintDecimalsCheck(decimals) ==
    IF decimals = NotFound THEN "Mint account not found"
    ELSE IF decimals # ExpectedDecimals
         THEN "Unexpected mint decimals (expected 6 for USDC)"
    ELSE ""

\* Lines 128-134, after the height query returned currentHeight.
BlockhashCheck(p, currentHeight) ==
    IF currentHeight > p.lvbh THEN "Blockhash expired" ELSE ""

\* --------------------------------------------------------------- the calls
\* A call: op "verify"/"settle"; pc, where the call is suspended ("idle": no call,
\* "returned": its result is delivered); p, r: the decoded arguments; t0, t: the
\* clock values read by line 101 and by cleanupNonces; reason/ok: the result;
\* registered: the call passed the replay check and recorded its nonce; requests:
\* the number of ledger lookups verify() has issued; at: the await the call
\* returned from ("start": it returned before any); attempt, sig: the locals of
\* sendTransactionWithRetry; balance: fromTokenAccount.amount; cause: the error
\* executeUSDCTransfer caught (it is logged, not returned).
\* rivals: <<t, validBefore>> of the verify() calls of the same nonce that were in
\* flight together with this one and returned valid.  this: the facilitator
\* instance the call was made on.  slept: the delays, in ms, of the backoff
\* timers the call has set.
IdleCall ==
    [op |-> "none", pc |-> "idle", p |-> NoPayload, r |-> NoRequirements,
     t0 |-> 0, t |-> 0, reason |-> "", ok |-> FALSE, registered |-> FALSE,
     requests |-> 0, at |-> "start", attempt |-> 0, sig |-> "", balance |-> 0,
     cause |-> "", rivals |-> {}, this |-> "A", slept |-> << >>]

Lookup(map, key) == IF key \in DOMAIN map THEN map[key] ELSE 0

Update(map, key, value) ==
    [k \in DOMAIN map \cup {key} |-> IF k = key THEN value ELSE map[k]]

Max(a, b) == IF a >= b THEN a ELSE b

\* A call is made.  Only validatePaymentLocally reads the clock.
NewCall(op, p, r) ==
    [IdleCall EXCEPT !.op = op, !.p = p, !.r = r,
                     !.t0 = IF op = "verify" /\ p # NoPayload THEN clock ELSE 0,
                     !.t = IF op = "verify" /\ p # NoPayload THEN clock ELSE 0]

\* The call returns: verify() answers {isValid: reason = "", invalidReason: reason},
\* settle() answers {success: reason = "", error: reason}.
Return(rec, reason) ==
    [rec EXCEPT !.pc = "returned", !.ok = (reason = ""), !.reason = reason,
                !.at = IF rec.pc = "idle" THEN "start" ELSE rec.pc]

\* The JS value null.
Null == "<null>"

\* Lines 47-60: the object verify() returns for a call that ended as rec.
VerifyResult(rec) ==
    IF rec.ok
    THEN [isValid |-> TRUE, invalidReason |-> Null]
    ELSE [isValid |-> FALSE,
          invalidReason |-> IF rec.reason = "" THEN "Local validation failed"
                            ELSE rec.reason]

\* settle() answering a failure that still names the network.
SettleResult_keepsNetwork(rec, net) ==
    LET txHash == IF rec.ok THEN rec.sig ELSE Null IN
    IF rec.reason # "Settlement error" /\ txHash \notin {Null, ""}
    THEN [success |-> TRUE, error |-> Null, txHash |-> txHash, networkId |-> net]
    ELSE [success |-> FALSE, error |-> rec.reason, txHash |-> Null,
          networkId |-> net]

\* Lines 157-187: the object settle() returns for a call that ended as rec on
\* the facilitator of network net.  txHash is what executeUSDCTransfer returned,
\* the signature or null; the catch of line 180 answers when the header did not
\* decode.
SettleResult(rec, net) ==
    LET txHash == IF rec.ok THEN rec.sig ELSE Null IN
    IF rec.reason = "Settlement error"
    THEN [success |-> FALSE, error |-> rec.reason, txHash |-> Null,
          networkId |-> Null]
    ELSE IF txHash \notin {Null, ""}
    THEN [success |-> TRUE, error |-> Null, txHash |-> txHash, networkId |-> net]
    ELSE [success |-> FALSE, error |-> "Failed to execute transfer",
          txHash |-> Null, networkId |-> Null]

\* verify() issues a ledger lookup and awaits its answer at pc.
Issue(rec, pc) ==
    [rec EXCEPT !.pc = pc, !.requests = @ + 1]

\* settle() awaits at pc.
Await(rec, pc) == [rec EXCEPT !.pc = pc]

\* Lines 136-144: the instruction-level validation up to its ledger lookup.
AfterHeight(rec) ==
    IF rec.p.tx # ""
    THEN IF SignedTransactionChecks(rec.p) # ""
         THEN Return(rec, SignedTransactionChecks(rec.p))
         ELSE Issue(rec, "dest")
    ELSE Return(rec, "")

\* Lines 128-129.
AfterMint(rec) ==
    IF rec.p.lvbh # 0 THEN Issue(rec, "height")
    ELSE AfterHeight(rec)

\* Lines 124-126, after the registration: validateMintDecimals builds the key of
\* the mint and issues the lookup.
AfterRegistration(rec) ==
    IF ~IsPublicKey(rec.p.asset) THEN Return(rec, "Invalid public key input")
    ELSE Issue(rec, "mint")

\* Slot c holds next after a step of its call: a call that has returned leaves
\* the slot, its result goes to the history, and the calls of its nonce still in
\* flight get a rival when it returned valid.
Proceed(c, next) ==
    LET valid == next.op = "verify" /\ next.pc = "returned" /\ next.ok IN
    /\ calls' = [d \in Calls |->
                   IF d = c
                   THEN (IF next.pc = "returned" THEN IdleCall ELSE next)
                   ELSE IF valid /\ calls[d].op = "verify"
                           /\ calls[d].p.nonce = next.p.nonce
                        THEN [calls[d] EXCEPT
                                !.rivals = @ \cup {<<next.t, next.p.validBefore>>}]
                        ELSE calls[d]]
    /\ result' = IF next.pc = "returned" THEN next ELSE result
    /\ validReturned' =
         IF valid
         THEN Update(validReturned, next.p.nonce,
                     Max(Lookup(validReturned, next.p.nonce), next.p.validBefore))
         ELSE validReturned

\* verify(header, requirements), header not decodable: JSON.parse throws and the
\* catch of verify() answers.
VerifyUndecodable(c) ==
    /\ calls[c].pc = "idle"
    /\ Proceed(c, Return(NewCall("verify", NoPayload, NoRequirements),
                         "Verification error"))
    /\ UNCHANGED marketplaceVars
    /\ UNCHANGED <<connection, peerNonces, pureCall, networkId, agentWallet,
                   seenNonces, clock, landed, transfers, registered>>

\* verify() sweeping before the header checks, so that a rejected call evicts.
VerifyStart_sweepFirst(c, P, R) ==
    /\ calls[c].pc = "idle"
    /\ \E p \in P, r \in R, tick \in {0, 1} :
         LET rec == NewCall("verify", p, r)
             header == HeaderChecks(p, r, networkId, clock)
             now == clock + tick
             replay == ReplayCheck(seenNonces, p, now)
             reg == [rec EXCEPT !.t = now, !.registered = replay.registered]
             next == IF header # "" THEN Return(rec, header)
                     ELSE IF replay.reason # "" THEN Return(reg, replay.reason)
                     ELSE AfterRegistration(reg)
         IN  /\ IF header # ""
                THEN /\ tick = 0
                     /\ seenNonces' = cleanupNonces(seenNonces, clock)
                     /\ UNCHANGED <<clock, registered>>
                ELSE /\ now <= MaxTime
                     /\ clock' = now
                     /\ seenNonces' = replay.nonces
                     /\ registered' =
                          IF replay.registered
                          THEN Update(registered, p.nonce,
                                      Max(Lookup(registered, p.nonce), p.validBefore))
                          ELSE registered
             /\ Proceed(c, next)
    /\ UNCHANGED marketplaceVars
    /\ UNCHANGED <<connection, peerNonces, pureCall, networkId, agentWallet,
                   landed, transfers>>

\* verify(header, requirements) up to its first await (lines 43-126): the header
\* checks at the clock value of line 101, then the sweep at the clock value
\* cleanupNonces reads (the clock may have ticked in between), the replay check
\* and the registration.
VerifyStart(c, P, R) ==
    /\ calls[c].pc = "idle"
    /\ \E p \in P, r \in R, tick \in {0, 1} :
         LET rec == NewCall("verify", p, r)
             header == HeaderChecks(p, r, networkId, clock)
             now == clock + tick
             replay == ReplayCheck(seenNonces, p, now)
             reg == [rec EXCEPT !.t = now, !.registered = replay.registered]
             next == IF header # "" THEN Return(rec, header)
                     ELSE IF replay.reason # "" THEN Return(reg, replay.reason)
                     ELSE AfterRegistration(reg)
         IN  /\ IF header # ""
                THEN /\ tick = 0
                     /\ UNCHANGED <<seenNonces, clock, registered>>
                ELSE /\ now <= MaxTime
                     /\ clock' = now
                     /\ seenNonces' = replay.nonces
                     /\ registered' =
                          IF replay.registered
                          THEN Update(registered, p.nonce,
                                      Max(Lookup(registered, p.nonce), p.validBefore))
                          ELSE registered
             /\ Proceed(c, next)
    /\ UNCHANGED marketplaceVars
    /\ UNCHANGED <<connection, peerNonces, pureCall, networkId, agentWallet,
                   landed, transfers>>

LedgerOf_shared(this, first, second) == first

\* Lines 15 and 24: this.seenNonces is a field of the instance, and each
\* constructor call creates its own Map: the ledger of instance this, first
\* being the ledger of "A" and second the ledger of "B".
LedgerOf(this, first, second) == IF this = "A" THEN first ELSE second

\* verify(header, requirements) up to its first await on the second instance,
\* "B": as VerifyStart, on the ledger of that instance.
PeerVerifyStart(c, P, R) ==
    /\ calls[c].pc = "idle"
    /\ \E p \in P, r \in R, tick \in {0, 1} :
         LET rec == [NewCall("verify", p, r) EXCEPT !.this = "B"]
             header == HeaderChecks(p, r, networkId, clock)
             now == clock + tick
             replay == ReplayCheck(LedgerOf("B", seenNonces, peerNonces), p, now)
             reg == [rec EXCEPT !.t = now, !.registered = replay.registered]
             next == IF header # "" THEN Return(rec, header)
                     ELSE IF replay.reason # "" THEN Return(reg, replay.reason)
                     ELSE AfterRegistration(reg)
         IN  /\ IF header # ""
                THEN /\ tick = 0
                     /\ UNCHANGED <<peerNonces, clock>>
                ELSE /\ now <= MaxTime
                     /\ clock' = now
                     /\ peerNonces' = replay.nonces
             /\ Proceed(c, next)
    /\ UNCHANGED marketplaceVars
    /\ UNCHANGED <<connection, pureCall, networkId, agentWallet, seenNonces,
                   landed, transfers, registered>>

\* The mint lookup answering, and a call that fails at it releasing its nonce.
MintLookup_releases(c) ==
    /\ calls[c].op = "verify" /\ calls[c].pc = "mint"
    /\ \E fault \in BOOLEAN :
         LET rec == calls[c]
             check == MintDecimalsCheck(MintDecimals(rec.p.asset))
         IN  /\ Proceed(c, IF fault
                           THEN Return(rec, "failed to get info about account")
                           ELSE IF check # "" THEN Return(rec, check)
                           ELSE AfterMint(rec))
             /\ seenNonces' =
                  IF fault \/ check # ""
                  THEN [n \in DOMAIN seenNonces \ {rec.p.nonce} |-> seenNonces[n]]
                  ELSE seenNonces
    /\ connection' = Access(connection)
    /\ UNCHANGED marketplaceVars
    /\ UNCHANGED <<peerNonces, pureCall, networkId, agentWallet, clock, landed,
                   transfers, registered>>

\* The mint lookup of validateMintDecimals answers (or faults), and the call runs
\* on to its next await.
MintLookup(c) ==
    /\ calls[c].op = "verify" /\ calls[c].pc = "mint"
    /\ \E fault \in BOOLEAN :
         LET rec == calls[c]
             check == MintDecimalsCheck(MintDecimals(rec.p.asset))
         IN  Proceed(c, IF fault THEN Return(rec, "failed to get info about account")
                        ELSE IF check # "" THEN Return(rec, check)
                        ELSE AfterMint(rec))
    /\ connection' = Access(connection)
    /\ UNCHANGED marketplaceVars
    /\ UNCHANGED <<peerNonces, pureCall, networkId, agentWallet, seenNonces,
                   clock, landed, transfers, registered>>

\* The ledger heights a query may answer.
Heights == {1, 2}

\* getBlockHeight answers (or faults).
HeightLookup(c) ==
    /\ calls[c].op = "verify" /\ calls[c].pc = "height"
    /\ \E fault \in BOOLEAN, currentHeight \in Heights :
         LET rec == calls[c]
             check == BlockhashCheck(rec.p, currentHeight)
         IN  Proceed(c, IF fault THEN Return(rec, "failed to get block height")
                        ELSE IF check # "" THEN Return(rec, check)
                        ELSE AfterHeight(rec))
    /\ connection' = Access(connection)
    /\ UNCHANGED marketplaceVars
    /\ UNCHANGED <<peerNonces, pureCall, networkId, agentWallet, seenNonces,
                   clock, landed, transfers, registered>>

\* The destination lookup of validateSignedTransaction answers (or faults).
DestinationLookup(c) ==
    /\ calls[c].op = "verify" /\ calls[c].pc = "dest"
    /\ \E fault \in BOOLEAN :
         LET rec == calls[c]
             check == DestinationChecks(rec.p, ChainAccounts(Destination(rec.p)))
         IN  Proceed(c, IF fault THEN Return(rec, "failed to get info about account")
                        ELSE Return(rec, check))
    /\ connection' = Access(connection)
    /\ UNCHANGED marketplaceVars
    /\ UNCHANGED <<peerNonces, pureCall, networkId, agentWallet, seenNonces,
                   clock, landed, transfers, registered>>

\* A second passes.
Tick ==
    /\ clock < MaxTime
    /\ clock' = clock + 1
    /\ UNCHANGED marketplaceVars
    /\ UNCHANGED <<connection, peerNonces, pureCall, networkId, agentWallet,
                   seenNonces, calls, landed, transfers, registered,
                   validReturned, result>>

\* ------------------------------------------------------------------ settle
\* executeUSDCTransfer throwing error on to the caller of settle().
TransferFailed_rethrow(rec, error) ==
    [rec EXCEPT !.pc = "raised", !.cause = error]

\* Lines 170-177 and 268-271: executeUSDCTransfer caught error and returned null,
\* and settle() answers 'Failed to execute transfer'.
TransferFailed(rec, error) ==
    Return([rec EXCEPT !.cause = error], "Failed to execute transfer")

\* The backoff delays all at the first value.
backoffMs_flat == <<500, 500, 500>>

\* Line 363: the backoff delays, in ms, by attempt (attempt 0 is the first).
backoffMs == <<500, 1000, 1500>>

\* Lines 388-391: the call sets the backoff timer of its attempt and awaits it.
Sleep(rec, error) ==
    [rec EXCEPT !.pc = "sleep", !.cause = error,
                !.slept = Append(@, backoffMs[rec.attempt + 1])]

\* sendTransactionWithRetry making one attempt more.
AttemptFailed_oneMore(rec, error) ==
    IF rec.attempt < maxAttempts
    THEN Sleep(rec, error)
    ELSE TransferFailed(rec, error)

\* sendTransactionWithRetry falling out of its loop after the last failure and
\* returning the signature it holds.
AttemptFailed_swallow(rec, error) ==
    IF rec.attempt < maxAttempts - 1
    THEN Sleep(rec, error)
    ELSE Return(rec, "")

\* Lines 387-395: an attempt of sendTransactionWithRetry failed with error.
AttemptFailed(rec, error) ==
    IF rec.attempt < maxAttempts - 1
    THEN Sleep(rec, error)
    ELSE TransferFailed(rec, error)

\* Lines 367-374: the top of an attempt.  transaction.serialize() throws when a
\* signature does not verify; otherwise the transaction is submitted.
StartAttempt(rec) ==
    IF ~Transactions[rec.p.tx].sigOk
    THEN AttemptFailed(rec, "Signature verification failed")
    ELSE Await(rec, "send")

\* executeUSDCTransfer falling back to the legacy path when the transaction does
\* not parse.
ExecuteStart_fallback(rec, wallet) ==
    IF ~rec.p.hasAuth
    THEN TransferFailed(rec, "No authorization found in payment payload")
    ELSE IF rec.p.tx # "" /\ Transactions[rec.p.tx].deser
    THEN StartAttempt(rec)
    ELSE IF ~wallet
    THEN TransferFailed(rec, "Agent wallet not initialized (required for legacy flow)")
    ELSE Await(rec, "fromAccount")

\* Lines 194-245: executeUSDCTransfer up to its first await.
ExecuteStart(rec, wallet) ==
    IF ~rec.p.hasAuth
    THEN TransferFailed(rec, "No authorization found in payment payload")
    ELSE IF rec.p.tx # ""
    THEN IF ~Transactions[rec.p.tx].deser
         THEN TransferFailed(rec, "Transaction deserialization failed")
         ELSE StartAttempt(rec)
    ELSE IF ~wallet
    THEN TransferFailed(rec, "Agent wallet not initialized (required for legacy flow)")
    ELSE IF ~IsPublicKey(rec.p.to)
    THEN TransferFailed(rec, "Invalid public key input")
    ELSE Await(rec, "fromAccount")

\* The transfers the ledger has executed for payload p.
TransferCount(p) == Lookup(transfers, p)

\* settle(header, requirements), header not decodable.
SettleUndecodable(c) ==
    /\ calls[c].pc = "idle"
    /\ Proceed(c, Return(NewCall("settle", NoPayload, NoRequirements),
                         "Settlement error"))
    /\ UNCHANGED marketplaceVars
    /\ UNCHANGED <<connection, peerNonces, pureCall, networkId, agentWallet,
                   seenNonces, clock, landed, transfers, registered>>

\* settle() releasing the nonce of the payload it settles.
SettleStart_releases(c, P, R) ==
    /\ calls[c].pc = "idle"
    /\ \E p \in P, r \in R :
         /\ Proceed(c, ExecuteStart(NewCall("settle", p, r), agentWallet))
         /\ seenNonces' = [n \in DOMAIN seenNonces \ {p.nonce} |-> seenNonces[n]]
    /\ UNCHANGED marketplaceVars
    /\ UNCHANGED <<connection, peerNonces, pureCall, networkId, agentWallet,
                   clock, landed, transfers, registered>>

\* settle() applying the header checks of verify() before it executes.
SettleStart_verifies(c, P, R) ==
    /\ calls[c].pc = "idle"
    /\ \E p \in P, r \in R :
         LET rec == NewCall("settle", p, r)
             reason == HeaderChecks(p, r, networkId, clock)
         IN  Proceed(c, IF reason # "" \/ p.nonce \in DOMAIN seenNonces
                        THEN TransferFailed(rec, IF reason # "" THEN reason
                                                 ELSE "Replay detected")
                        ELSE ExecuteStart(rec, agentWallet))
    /\ UNCHANGED marketplaceVars
    /\ UNCHANGED <<connection, peerNonces, pureCall, networkId, agentWallet,
                   seenNonces, clock, landed, transfers, registered>>

\* settle(header, requirements) up to its first await.
SettleStart(c, P, R) ==
    /\ calls[c].pc = "idle"
    /\ \E p \in P, r \in R :
         Proceed(c, ExecuteStart(NewCall("settle", p, r), agentWallet))
    /\ UNCHANGED marketplaceVars
    /\ UNCHANGED <<connection, peerNonces, pureCall, networkId, agentWallet,
                   seenNonces, clock, landed, transfers, registered>>

\* verify(header, requirements), header the encoding of null: line 65 reads a
\* property of null, and the catch of line 145 answers with the message.
VerifyNullPayload(c) ==
    /\ calls[c].pc = "idle"
    /\ Proceed(c, Return(NewCall("verify", NoPayload, NoRequirements),
                         "Cannot read properties of null"))
    /\ UNCHANGED marketplaceVars
    /\ UNCHANGED <<connection, peerNonces, pureCall, networkId, agentWallet,
                   seenNonces, clock, landed, transfers, registered>>

\* verify(header, null): line 65 does not read the requirements, line 70 does.
VerifyNullRequirements(c, P) ==
    /\ calls[c].pc = "idle"
    /\ \E p \in P :
         Proceed(c, Return(NewCall("verify", p, NoRequirements),
                           IF ~VersionOk(p) THEN "Invalid x402 version"
                           ELSE "Cannot read properties of null"))
    /\ UNCHANGED marketplaceVars
    /\ UNCHANGED <<connection, peerNonces, pureCall, networkId, agentWallet,
                   seenNonces, clock, landed, transfers, registered>>

\* settle(header, requirements), header the encoding of null: line 194 reads a
\* property of null inside the try of executeUSDCTransfer.
SettleNullPayload(c) ==
    /\ calls[c].pc = "idle"
    /\ Proceed(c, TransferFailed(NewCall("settle", NoPayload, NoRequirements),
                                 "Cannot read properties of null"))
    /\ UNCHANGED marketplaceVars
    /\ UNCHANGED <<connection, peerNonces, pureCall, networkId, agentWallet,
                   seenNonces, clock, landed, transfers, registered>>

\* sendRawTransaction answers.  The ledger processes a transaction at most once:
\* one that has landed is refused.  An accepted one lands, or is dropped.
SendRawTransaction(c) ==
    /\ calls[c].op = "settle" /\ calls[c].pc = "send"
    /\ LET rec == calls[c] IN
       \/ /\ Proceed(c, AttemptFailed(rec, "send failed"))
          /\ UNCHANGED <<landed, transfers>>
       \/ /\ rec.p.tx \notin landed
          /\ Proceed(c, Await([rec EXCEPT !.sig = rec.p.tx], "confirm"))
          /\ \/ /\ landed' = landed \cup {rec.p.tx}
                /\ transfers' = Update(transfers, rec.p, TransferCount(rec.p) + 1)
             \/ UNCHANGED <<landed, transfers>>
    /\ connection' = Access(connection)
    /\ UNCHANGED marketplaceVars
    /\ UNCHANGED <<peerNonces, pureCall, networkId, agentWallet, seenNonces,
                   clock, registered>>

\* confirmTransaction answers: confirmed (the transaction has landed), or not.
ConfirmTransaction(c) ==
    /\ calls[c].op = "settle" /\ calls[c].pc = "confirm"
    /\ LET rec == calls[c] IN
       \/ Proceed(c, AttemptFailed(rec, "confirmation failed"))
       \/ /\ rec.sig \in landed
          /\ Proceed(c, Return(rec, ""))
    /\ connection' = Access(connection)
    /\ UNCHANGED marketplaceVars
    /\ UNCHANGED <<peerNonces, pureCall, networkId, agentWallet, seenNonces,
                   clock, landed, transfers, registered>>

\* Lines 389-391: the backoff sleep ends and the next attempt starts.
Backoff(c) ==
    /\ calls[c].op = "settle" /\ calls[c].pc = "sleep"
    /\ Proceed(c, StartAttempt([calls[c] EXCEPT !.attempt = @ + 1]))
    /\ UNCHANGED marketplaceVars
    /\ UNCHANGED <<connection, peerNonces, pureCall, networkId, agentWallet,
                   seenNonces, clock, landed, transfers, registered>>

\* The balances the paying account may hold when it is read.
Balances == {0, 1}

\* Lines 239-241: the account of the facilitator's wallet is read.
FromAccount(c) ==
    /\ calls[c].op = "settle" /\ calls[c].pc = "fromAccount"
    /\ LET rec == calls[c] IN
       \/ Proceed(c, TransferFailed(rec, "failed to get info about account"))
       \/ \E amount \in Balances :
            Proceed(c, Await([rec EXCEPT !.balance = amount], "toAccount"))
    /\ connection' = Access(connection)
    /\ UNCHANGED marketplaceVars
    /\ UNCHANGED <<peerNonces, pureCall, networkId, agentWallet, seenNonces,
                   clock, landed, transfers, registered>>

\* Lines 243-262: the account of the recipient is read, then the balance check.
ToAccount(c) ==
    /\ calls[c].op = "settle" /\ calls[c].pc = "toAccount"
    /\ LET rec == calls[c] IN
       \/ Proceed(c, TransferFailed(rec, "failed to get info about account"))
       \/ Proceed(c, IF rec.balance < Number(rec.p.value)
                     THEN TransferFailed(rec, "Insufficient USDC balance")
                     ELSE Await(rec, "transfer"))
    /\ connection' = Access(connection)
    /\ UNCHANGED marketplaceVars
    /\ UNCHANGED <<peerNonces, pureCall, networkId, agentWallet, seenNonces,
                   clock, landed, transfers, registered>>

\* Lines 256-265: token.transfer builds, signs, submits and confirms a new
\* transaction: it is executed and confirmed, or executed while the confirmation
\* faults, or not executed.
TokenTransfer(c) ==
    /\ calls[c].op = "settle" /\ calls[c].pc = "transfer"
    /\ LET rec == calls[c] IN
       \/ /\ Proceed(c, TransferFailed(rec, "transfer failed"))
          /\ UNCHANGED transfers
       \/ /\ TransferCount(rec.p) < MaxTransfers
          /\ transfers' = Update(transfers, rec.p, TransferCount(rec.p) + 1)
          /\ \/ Proceed(c, Return([rec EXCEPT !.sig = "legacySignature"], ""))
             \/ Proceed(c, TransferFailed(rec, "confirmation failed"))
    /\ connection' = Access(connection)
    /\ UNCHANGED marketplaceVars
    /\ UNCHANGED <<peerNonces, pureCall, networkId, agentWallet, seenNonces,
                   clock, landed, registered>>

\* ------------------------------------------------------- getSupportedSchemes
\* The calls of getSupportedSchemes() a behaviour makes at most.
MaxQueries == 2

getSupportedSchemes_all(net) ==
    {[scheme |-> "exact", network |-> n] : n \in NetworkIds}

\* Lines 398-404: the kinds of the returned object.
getSupportedSchemes(net) == {[scheme |-> "exact", network |-> net]}

\* A function without awaits was called with args and returned value.
PureCall(fn, args, value) ==
    [fn |-> fn, args |-> args, value |-> value, done |-> TRUE,
     count |-> pureCall.count + 1]

\* getSupportedSchemes() is called and returns.
GetSupportedSchemes ==
    /\ pureCall.count < MaxQueries
    /\ pureCall' = PureCall("getSupportedSchemes", << >>,
                            getSupportedSchemes(networkId))
    /\ UNCHANGED marketplaceVars
    /\ UNCHANGED <<networkId, agentWallet, seenNonces, clock, calls, landed,
                   transfers, registered, validReturned, result, connection,
                   peerNonces>>

\* -------------------------------------------------- resolveRpcUrlForNetwork
\* type SolanaNetwork (utils/solana, line 3).
RpcNetworks == {"devnet", "testnet", "mainnet-beta"}

\* An entry that is undefined or the empty string: both are falsy.
NoUrl == ""

\* String.prototype.toLowerCase, on the values SOLANA_NETWORK takes here.
toLowerCase(s) ==
    CASE s = "MAINNET" -> "mainnet"
      [] s = "Testnet" -> "testnet"
      [] OTHER -> s

\* normalizeNetwork (utils/solana, lines 19-31); raw = "" is an unset variable.
normalizeNetwork(raw) ==
    LET value == toLowerCase(IF raw = "" THEN "devnet" ELSE raw) IN
    IF value \in {"mainnet", "mainnet-beta", "mainnetbeta"} THEN "mainnet-beta"
    ELSE IF value = "testnet" THEN "testnet"
    ELSE "devnet"

\* clusterApiUrl of @solana/web3.js: the public endpoint of the cluster.
clusterApiUrl(network) ==
    CASE network = "devnet" -> "https://api.devnet.solana.com"
      [] network = "testnet" -> "https://api.testnet.solana.com"
      [] network = "mainnet-beta" -> "https://api.mainnet-beta.solana.com"

\* A NetworkRpcConfig (lines 11-15); given = FALSE is the argument left out.
RpcConfig(given, devnet, mainnet, testnet) ==
    [given |-> given, devnetRpcUrl |-> devnet, mainnetRpcUrl |-> mainnet,
     testnetRpcUrl |-> testnet]

\* The variables of the environment resolveRpcUrlForNetwork reads.
RpcEnv(devnet, mainnet, testnet, generic, default) ==
    [SOLANA_DEVNET_RPC_URL |-> devnet, SOLANA_MAINNET_RPC_URL |-> mainnet,
     SOLANA_TESTNET_RPC_URL |-> testnet, SOLANA_RPC_URL |-> generic,
     SOLANA_NETWORK |-> default]

\* resolveRpcUrlForNetwork returning SOLANA_RPC_URL for every network.
resolveRpcUrlForNetwork_generic(network, config, env) ==
    IF config.given /\ network = "mainnet-beta" /\ config.mainnetRpcUrl # NoUrl
    THEN config.mainnetRpcUrl
    ELSE IF config.given /\ network = "devnet" /\ config.devnetRpcUrl # NoUrl
    THEN config.devnetRpcUrl
    ELSE IF config.given /\ network = "testnet" /\ config.testnetRpcUrl # NoUrl
    THEN config.testnetRpcUrl
    ELSE IF network = "mainnet-beta" /\ env.SOLANA_MAINNET_RPC_URL # NoUrl
    THEN env.SOLANA_MAINNET_RPC_URL
    ELSE IF network = "devnet" /\ env.SOLANA_DEVNET_RPC_URL # NoUrl
    THEN env.SOLANA_DEVNET_RPC_URL
    ELSE IF network = "testnet" /\ env.SOLANA_TESTNET_RPC_URL # NoUrl
    THEN env.SOLANA_TESTNET_RPC_URL
    ELSE IF env.SOLANA_RPC_URL # NoUrl
    THEN env.SOLANA_RPC_URL
    ELSE clusterApiUrl(network)

\* resolveRpcUrlForNetwork (utils/solana, lines 56-87).
resolveRpcUrlForNetwork(network, config, env) ==
    IF config.given /\ network = "mainnet-beta" /\ config.mainnetRpcUrl # NoUrl
    THEN config.mainnetRpcUrl
    ELSE IF config.given /\ network = "devnet" /\ config.devnetRpcUrl # NoUrl
    THEN config.devnetRpcUrl
    ELSE IF config.given /\ network = "testnet" /\ config.testnetRpcUrl # NoUrl
    THEN config.testnetRpcUrl
    ELSE IF network = "mainnet-beta" /\ env.SOLANA_MAINNET_RPC_URL # NoUrl
    THEN env.SOLANA_MAINNET_RPC_URL
    ELSE IF network = "devnet" /\ env.SOLANA_DEVNET_RPC_URL # NoUrl
    THEN env.SOLANA_DEVNET_RPC_URL
    ELSE IF network = "testnet" /\ env.SOLANA_TESTNET_RPC_URL # NoUrl
    THEN env.SOLANA_TESTNET_RPC_URL
    ELSE IF env.SOLANA_RPC_URL # NoUrl
            /\ network = normalizeNetwork(env.SOLANA_NETWORK)
    THEN env.SOLANA_RPC_URL
    ELSE clusterApiUrl(network)

\* resolveRpcUrlForNetwork is called on the arguments drawn, and returns.
ResolveRpcUrlForNetwork ==
    /\ pureCall.fn = "resolveRpcUrlForNetwork" /\ ~pureCall.done
    /\ pureCall' = PureCall(pureCall.fn, pureCall.args,
                            resolveRpcUrlForNetwork(pureCall.args[1],
                                                    pureCall.args[2],
                                                    pureCall.args[3]))
    /\ UNCHANGED marketplaceVars
    /\ UNCHANGED <<networkId, agentWallet, seenNonces, clock, calls, landed,
                   transfers, registered, validReturned, result, connection,
                   peerNonces>>

\* ------------------------------------------------- the transfer instruction
\* The data check accepting every opcode.
TransferAmount_anyOpcode(data) ==
    IF Len(data) < MinDataLength
    THEN [reason |-> "Invalid transfer instruction data", amount |-> NotFound]
    ELSE [reason |-> "", amount |-> readU64(SubSeq(data, 2, 9))]

\* Lines 321-325: the check of instruction.data and the amount decoded from it,
\* readU64(instruction.data.subarray(1, 9)); no amount when the data is refused.
TransferAmount(data) ==
    IF Len(data) < MinDataLength \/ data[1] # TransferOpcode
    THEN [reason |-> "Invalid transfer instruction data", amount |-> NotFound]
    ELSE [reason |-> "", amount |-> readU64(SubSeq(data, 2, 9))]

\* The instruction data drawn is checked and decoded.
DecodeTransferAmount ==
    /\ pureCall.fn = "readU64" /\ ~pureCall.done
    /\ pureCall' = PureCall(pureCall.fn, pureCall.args,
                            TransferAmount(pureCall.args[1]))
    /\ UNCHANGED marketplaceVars
    /\ UNCHANGED <<networkId, agentWallet, seenNonces, clock, calls, landed,
                   transfers, registered, validReturned, result, connection,
                   peerNonces>>

\* ------------------------------------------------------ interval timers
\* The timers setInterval has created so far, and those of them still running.
\* A timer handle is truthy; 0 stands for the undefined of an unset field.
NoTimers == [created |-> 0, running |-> {}]

\* setInterval(callback, ms): the handle it returns, and the timers after it.
NewTimer(t) == t.created + 1

SetInterval(t) == [created |-> NewTimer(t), running |-> t.running \cup {NewTimer(t)}]

\* clearInterval(handle)
ClearInterval(t, handle) == [t EXCEPT !.running = @ \ {handle}]

\* --------------------------------------------------- ConversationWrapper
\* The on() calls a behaviour makes at most.
MaxListeners == 2

\* The items (messages and deliveries) the agent sends at most.
MaxItems == 2

\* Lines 719-721 of MarketplaceConsumer.ts: the fields of a new wrapper.
NewWrapper ==
    [pollingInterval |-> 0, messageHandlers |-> << >>,
     deliveryHandlers |-> << >>, lastCall |-> "none"]

\* The backend: the conversations created, the messages and deliveries not yet
\* returned to the consumer, and the number of items sent so far.
NewMarketplace ==
    [conversations |-> {}, messages |-> {}, deliveries |-> {}, sent |-> 0]

\* No poll callback is running; nothing was fetched or handled.
NoPolls == [pc |-> "idle", fetched |-> {}, handled |-> {}]

Range(seq) == {seq[i] : i \in DOMAIN seq}

\* Lines 929-930: startPolling() sets the timer and keeps its handle.
startPolling(w, t) == [w EXCEPT !.pollingInterval = NewTimer(t)]

\* Lines 900-915: on(event, handler).
On(event, handler) ==
    /\ Len(wrapper.messageHandlers) + Len(wrapper.deliveryHandlers) < MaxListeners
    /\ LET pushed == IF event = "message"
                     THEN [wrapper EXCEPT !.messageHandlers = Append(@, handler)]
                     ELSE [wrapper EXCEPT !.deliveryHandlers = Append(@, handler)]
           called == [pushed EXCEPT !.lastCall = "on"]
       IN  IF wrapper.pollingInterval = 0
           THEN /\ wrapper' = startPolling(called, timers)
                /\ timers' = SetInterval(timers)
           ELSE /\ wrapper' = called
                /\ UNCHANGED timers
    /\ UNCHANGED <<marketplace, polls, consumer, a2aServer, provider>>
    /\ UNCHANGED facilitatorVars

\* Lines 920-924: stop() clears the timer; the field keeps the handle.
Stop ==
    /\ wrapper' = [wrapper EXCEPT !.lastCall = "stop"]
    /\ timers' = IF wrapper.pollingInterval # 0
                 THEN ClearInterval(timers, wrapper.pollingInterval)
                 ELSE timers
    /\ UNCHANGED <<marketplace, polls, consumer, a2aServer, provider>>
    /\ UNCHANGED facilitatorVars

\* The agent sends a message or a delivery into the conversation.
AgentSends(kind) ==
    /\ marketplace.sent < MaxItems
    /\ LET item == <<kind, marketplace.sent + 1>> IN
       marketplace' =
         IF kind = "message"
         THEN [marketplace EXCEPT !.sent = @ + 1, !.messages = @ \cup {item}]
         ELSE [marketplace EXCEPT !.sent = @ + 1, !.deliveries = @ \cup {item}]
    /\ UNCHANGED <<timers, wrapper, polls, consumer, a2aServer, provider>>
    /\ UNCHANGED facilitatorVars

\* Lines 930-937: a running timer fires and its callback requests the new
\* messages.
PollStart ==
    /\ wrapper.pollingInterval \in timers.running
    /\ polls.pc = "idle"
    /\ polls' = [polls EXCEPT !.pc = "messages"]
    /\ UNCHANGED <<timers, wrapper, marketplace, consumer, a2aServer, provider>>
    /\ UNCHANGED facilitatorVars

\* Each handler of handlers is called with each item of items.
Handled(items, handlers) == {<<item, h>> : item \in items, h \in Range(handlers)}

\* Lines 932-954: the request for the new messages fails, and the catch of
\* line 965 ends the callback; or the backend returns the messages the consumer
\* has not had yet and marks them delivered, the message handlers are called
\* with each, and the new deliveries are requested.
PollMessages ==
    /\ polls.pc = "messages"
    /\ \/ /\ polls' = [polls EXCEPT !.pc = "idle"]
          /\ UNCHANGED marketplace
       \/ /\ polls' = [pc |-> "deliveries",
                       fetched |-> polls.fetched \cup marketplace.messages,
                       handled |-> polls.handled
                                     \cup Handled(marketplace.messages,
                                                  wrapper.messageHandlers)]
          /\ marketplace' = [marketplace EXCEPT !.messages = {}]
    /\ UNCHANGED <<timers, wrapper, consumer, a2aServer, provider>>
    /\ UNCHANGED facilitatorVars

\* Lines 949-967: the same for the deliveries, which ends the callback.
PollDeliveries ==
    /\ polls.pc = "deliveries"
    /\ \/ /\ polls' = [polls EXCEPT !.pc = "idle"]
          /\ UNCHANGED marketplace
       \/ /\ polls' = [pc |-> "idle",
                       fetched |-> polls.fetched \cup marketplace.deliveries,
                       handled |-> polls.handled
                                     \cup Handled(marketplace.deliveries,
                                                  wrapper.deliveryHandlers)]
          /\ marketplace' = [marketplace EXCEPT !.deliveries = {}]
    /\ UNCHANGED <<timers, wrapper, consumer, a2aServer, provider>>
    /\ UNCHANGED facilitatorVars

\* ---------------------------------------------------- MarketplaceConsumer
\* The startConversation() calls a behaviour makes at most.
MaxConversations == 2

\* The agents of the marketplace, and the wallet of the owner of each.
Agents == {"agent1", "agent2"}

ownerWallet(agentId) == IF agentId = "agent1" THEN "owner1" ELSE "owner2"

NotInitialized == "Marketplace wallet not initialized. Did you call init()?"
InfoUnavailable == "Could not initialize consumer: marketplace info unavailable"
RequestFailed == "Request failed"

\* Lines 523-529: a new consumer, with the merchant wallet of its
\* SettlementAgent; "" stands for undefined.  op, pc, agentId and error are the
\* call in flight or the last call, error the message it threw; initCalled
\* tells whether init() was called before that call, started counts the
\* startConversation() calls.
NewConsumer ==
    [marketplaceWallet |-> "", merchantWallet |-> "", op |-> "none",
     pc |-> "idle", agentId |-> "", error |-> "", initCalled |-> FALSE,
     initBefore |-> FALSE, started |-> 0]

\* Lines 534-540: init() up to its request for the marketplace info.
ConsumerInit ==
    /\ consumer.pc = "idle"
    /\ consumer' = [consumer EXCEPT !.op = "init", !.pc = "info", !.error = "",
                                    !.agentId = "", !.initCalled = TRUE]
    /\ UNCHANGED <<timers, wrapper, marketplace, polls, a2aServer, provider>>
    /\ UNCHANGED facilitatorVars

\* Lines 540-547: the marketplace info arrives and the wallet is kept, or the
\* request fails and init() throws.
MarketplaceInfo ==
    /\ consumer.op = "init" /\ consumer.pc = "info"
    /\ \/ consumer' = [consumer EXCEPT !.pc = "idle",
                                       !.marketplaceWallet = "marketplace"]
       \/ consumer' = [consumer EXCEPT !.pc = "idle", !.error = InfoUnavailable]
    /\ UNCHANGED <<timers, wrapper, marketplace, polls, a2aServer, provider>>
    /\ UNCHANGED facilitatorVars

\* Lines 582-588: startConversation(agentId, options) up to its request for the
\* agent.
StartConversation(agentId) ==
    /\ consumer.pc = "idle" /\ consumer.started < MaxConversations
    /\ consumer' = [consumer EXCEPT !.op = "startConversation", !.pc = "agent",
                                    !.agentId = agentId, !.error = "",
                                    !.initBefore = consumer.initCalled,
                                    !.started = @ + 1]
    /\ UNCHANGED <<timers, wrapper, marketplace, polls, a2aServer, provider>>
    /\ UNCHANGED facilitatorVars

\* Lines 588-599: the request for the agent fails and the call rethrows (line
\* 630); or the agent arrives, its owner becomes the merchant wallet of the
\* SettlementAgent, and the conversation is posted.
AgentDetails ==
    /\ consumer.op = "startConversation" /\ consumer.pc = "agent"
    /\ \/ consumer' = [consumer EXCEPT !.pc = "idle", !.error = RequestFailed]
       \/ consumer' = [consumer EXCEPT
                         !.pc = "conversation",
                         !.merchantWallet = ownerWallet(consumer.agentId)]
    /\ UNCHANGED <<timers, wrapper, marketplace, polls, a2aServer, provider>>
    /\ UNCHANGED facilitatorVars

\* Lines 594-631: the post fails and the call rethrows; or the backend creates
\* the conversation and answers with its id, and then the call throws when the
\* marketplace wallet is not set (lines 617-619) and otherwise returns a
\* wrapper of the conversation.
CreateConversation ==
    /\ consumer.op = "startConversation" /\ consumer.pc = "conversation"
    /\ \/ /\ consumer' = [consumer EXCEPT !.pc = "idle", !.error = RequestFailed]
          /\ UNCHANGED marketplace
       \/ /\ marketplace' =
               [marketplace EXCEPT
                  !.conversations =
                     @ \cup {[id |-> Cardinality(@) + 1,
                              agentId |-> consumer.agentId]}]
          /\ consumer' = [consumer EXCEPT
                            !.pc = "idle",
                            !.error = IF consumer.marketplaceWallet = ""
                                      THEN NotInitialized ELSE ""]
    /\ UNCHANGED <<timers, wrapper, polls, a2aServer, provider>>
    /\ UNCHANGED facilitatorVars

\* ------------------------------------------------------------- A2AServer
\* The handleRequest() calls and the createTask() calls a behaviour makes at
\* most.
MaxRequests == 2
MaxTasks == 1

MethodNotFound == 0 - 32601
InternalError == 0 - 32603

\* The methods of the requests.
Methods == {"getTask", "cancelTask"}

\* A JS value by its type: a string v, an Error of message v, null, undefined;
\* and the absence of a property.
Value(type, v) == [type |-> type, v |-> v]
Undefined == Value("undefined", "")
Absent == Value("absent", "")

\* What a handler does with a request: it returns a value, or it throws (its
\* promise rejects with) a value, an Error with a message or something else.
HandlerOutcomes ==
    {[kind |-> "returns", value |-> v] : v \in {Value("string", "done"), Undefined}}
      \cup {[kind |-> "throws", value |-> v] :
              v \in {Value("Error", "boom"), Value("null", ""), Undefined}}

NoRequest == [id |-> 0, method |-> ""]
NoOutcome == [kind |-> "none", value |-> Undefined]
NoError == [code |-> 0, message |-> "", data |-> Absent]
NoResponse == [id |-> 0, result |-> Absent, error |-> NoError, threw |-> ""]

\* Lines 244-247 of A2AProtocol: a new server; request, outcome and response
\* are those of the handleRequest() call in flight or of the last one, invoked
\* counts the handler invocations, requests the handleRequest() calls.
NewA2AServer ==
    [handlers |-> {}, tasks |-> {}, pc |-> "idle", request |-> NoRequest,
     outcome |-> NoOutcome, response |-> NoResponse, invoked |-> 0,
     requests |-> 0]

\* Lines 249-251: registerHandler(method, handler)
RegisterHandler(method) ==
    /\ method \notin a2aServer.handlers
    /\ a2aServer' = [a2aServer EXCEPT !.handlers = @ \cup {method}]
    /\ UNCHANGED <<timers, wrapper, marketplace, polls, consumer, provider>>
    /\ UNCHANGED facilitatorVars

\* Lines 287-298: createTask(input)
CreateTask ==
    /\ Cardinality(a2aServer.tasks) < MaxTasks
    /\ a2aServer' = [a2aServer EXCEPT !.tasks = @ \cup {Cardinality(@) + 1}]
    /\ UNCHANGED <<timers, wrapper, marketplace, polls, consumer, provider>>
    /\ UNCHANGED facilitatorVars

\* Lines 256-265: the answer to a request whose method has no handler.
MethodNotFoundResponse(id) ==
    [id |-> id, result |-> Absent,
     error |-> [code |-> MethodNotFound, message |-> "Method not found",
                data |-> Absent],
     threw |-> ""]

\* Lines 268-273: the answer with the value the handler returned.
ResultResponse(id, value) ==
    [id |-> id, result |-> value, error |-> NoError, threw |-> ""]

\* Lines 274-284: the catch reads the message of what the handler threw: of
\* null or undefined no property can be read, and the read throws out of
\* handleRequest; of another value that has no message it is undefined.
ErrorResponse(id, thrown) ==
    IF thrown.type \in {"null", "undefined"}
    THEN [NoResponse EXCEPT !.threw = "Cannot read properties of " \o thrown.type]
    ELSE [id |-> id, result |-> Absent,
          error |-> [code |-> InternalError, message |-> "Internal error",
                     data |-> IF thrown.type = "Error"
                              THEN Value("string", thrown.v) ELSE Undefined],
          threw |-> ""]

\* Lines 253-268: handleRequest(message) up to its await of the handler, or to
\* its return when the method has none.
HandleRequest(id, method) ==
    /\ a2aServer.pc = "idle" /\ a2aServer.requests < MaxRequests
    /\ LET called == [a2aServer EXCEPT !.request = [id |-> id, method |-> method],
                                       !.requests = @ + 1,
                                       !.outcome = NoOutcome,
                                       !.response = NoResponse]
       IN  a2aServer' =
             IF method \notin a2aServer.handlers
             THEN [called EXCEPT !.response = MethodNotFoundResponse(id)]
             ELSE [called EXCEPT !.pc = "handler", !.invoked = @ + 1]
    /\ UNCHANGED <<timers, wrapper, marketplace, polls, consumer, provider>>
    /\ UNCHANGED facilitatorVars

\* Lines 268-284: the handler settles and handleRequest() answers.
HandlerSettles ==
    /\ a2aServer.pc = "handler"
    /\ \E outcome \in HandlerOutcomes :
         a2aServer' =
           [a2aServer EXCEPT
              !.pc = "idle", !.outcome = outcome,
              !.response = IF outcome.kind = "returns"
                           THEN ResultResponse(a2aServer.request.id, outcome.value)
                           ELSE ErrorResponse(a2aServer.request.id, outcome.value)]
    /\ UNCHANGED <<timers, wrapper, marketplace, polls, consumer, provider>>
    /\ UNCHANGED facilitatorVars

\* --------------------------------------------------- MarketplaceProvider
\* The start() calls a behaviour makes at most, and the timer callbacks that
\* run at most.
MaxStarts == 2
MaxPolls == 2

\* Lines 100-109 of MarketplaceProvider: a new provider, no handler set.  pc is
\* the place of the timer callback in flight, lastCall the last of start() and
\* stop(), starts counts the start() calls, callbacks the timer callbacks and
\* requests the polls they have sent to the backend.
NewProvider ==
    [pollingInterval |-> 0, messageHandler |-> FALSE, orderPaidHandler |-> FALSE,
     lastCall |-> "none", pc |-> "idle", starts |-> 0, callbacks |-> 0,
     requests |-> 0]

\* Lines 198-200: onMessage(handler)
OnMessage ==
    /\ ~provider.messageHandler
    /\ provider' = [provider EXCEPT !.messageHandler = TRUE]
    /\ UNCHANGED <<timers, wrapper, marketplace, polls, consumer, a2aServer>>
    /\ UNCHANGED facilitatorVars

\* Lines 205-207: onOrderPaid(handler)
OnOrderPaid ==
    /\ ~provider.orderPaidHandler
    /\ provider' = [provider EXCEPT !.orderPaidHandler = TRUE]
    /\ UNCHANGED <<timers, wrapper, marketplace, polls, consumer, a2aServer>>
    /\ UNCHANGED facilitatorVars

\* Lines 285-300: start() sets a timer and keeps its handle, whatever handle
\* the field held.
Start ==
    /\ provider.starts < MaxStarts
    /\ provider' = [provider EXCEPT !.pollingInterval = NewTimer(timers),
                                    !.lastCall = "start", !.starts = @ + 1]
    /\ timers' = SetInterval(timers)
    /\ UNCHANGED <<wrapper, marketplace, polls, consumer, a2aServer>>
    /\ UNCHANGED facilitatorVars

\* Lines 305-310: stop() clears the timer whose handle the field holds.
ProviderStop ==
    /\ provider' = [provider EXCEPT !.lastCall = "stop"]
    /\ timers' = IF provider.pollingInterval # 0
                 THEN ClearInterval(timers, provider.pollingInterval)
                 ELSE timers
    /\ UNCHANGED <<wrapper, marketplace, polls, consumer, a2aServer>>
    /\ UNCHANGED facilitatorVars

\* Lines 339-343: pollOrders() returns at once without a handler, and requests
\* the paid orders otherwise.
pollOrders(p) ==
    IF p.orderPaidHandler
    THEN [p EXCEPT !.pc = "orders", !.requests = @ + 1]
    ELSE [p EXCEPT !.pc = "idle"]

\* Lines 289-296 and 315-319: a running timer fires; pollMessages() returns at
\* once without a handler, and pollOrders() follows; otherwise it requests the
\* new messages.
ProviderPoll ==
    /\ timers.running # {}
    /\ provider.pc = "idle" /\ provider.callbacks < MaxPolls
    /\ LET called == [provider EXCEPT !.callbacks = @ + 1] IN
       provider' = IF provider.messageHandler
                   THEN [called EXCEPT !.pc = "messages", !.requests = @ + 1]
                   ELSE pollOrders(called)
    /\ UNCHANGED <<timers, wrapper, marketplace, polls, consumer, a2aServer>>
    /\ UNCHANGED facilitatorVars

\* Lines 319-334 and 293-294: the request for the messages is answered, or
\* fails; the handler has had every message; pollOrders() follows.
ProviderMessages ==
    /\ provider.pc = "messages"
    /\ provider' = pollOrders(provider)
    /\ UNCHANGED <<timers, wrapper, marketplace, polls, consumer, a2aServer>>
    /\ UNCHANGED facilitatorVars

\* Lines 343-355: the request for the paid orders is answered, or fails; the
\* handler has had every order, and the callback ends.
ProviderOrders ==
    /\ provider.pc = "orders"
    /\ provider' = [provider EXCEPT !.pc = "idle"]
    /\ UNCHANGED <<timers, wrapper, marketplace, polls, consumer, a2aServer>>
    /\ UNCHANGED facilitatorVars

\* The marketplace classes after construction, no timer set.
InitMarketplace ==
    /\ timers = NoTimers
    /\ wrapper = NewWrapper
    /\ marketplace = NewMarketplace
    /\ polls = NoPolls
    /\ consumer = NewConsumer
    /\ a2aServer = NewA2AServer
    /\ provider = NewProvider

\* ------------------------------------------------------ the specifications
WellFormed(vb, n, tx, h) ==
    Payload(1, "exact", "solana-devnet", TRUE, Str(1), "P", "USDC", vb, n, tx, h)

\* Spec: verify() and settle() calls on one facilitator, any interleaving: the
\* settled payloads differ in the attached transaction (none: the legacy path).
SpecPayloads ==
    {WellFormed(MaxTime + 1, "n1", tx, 0) : tx \in {"", "txGood"}}

SpecVerifyPayloads == {WellFormed(MaxTime + 1, "n1", "", 0)}

SpecRequirements ==
    {Requirements("exact", "solana-devnet", Str(1), "P", "USDC", 0)}

Init ==
    /\ InitMarketplace
    /\ networkId = networkToId("devnet")
    /\ agentWallet \in BOOLEAN
    /\ seenNonces = << >>
    /\ clock = 0
    /\ calls = [c \in Calls |-> IdleCall]
    /\ landed = {}
    /\ transfers = << >>
    /\ registered = << >>
    /\ validReturned = << >>
    /\ result = IdleCall
    /\ connection = NewConnection
    /\ peerNonces = << >>
    /\ pureCall = NoPureCall

VerifySteps(c) ==
    \/ MintLookup(c)
    \/ HeightLookup(c)
    \/ DestinationLookup(c)

SettleSteps(c) ==
    \/ SendRawTransaction(c)
    \/ ConfirmTransaction(c)
    \/ Backoff(c)
    \/ FromAccount(c)
    \/ ToAccount(c)
    \/ TokenTransfer(c)

Next ==
    \/ \E c \in Calls :
         \/ VerifyUndecodable(c)
         \/ VerifyStart(c, SpecVerifyPayloads, SpecRequirements)
         \/ MintLookup(c)
         \/ SettleUndecodable(c)
         \/ SettleStart(c, SpecPayloads, SpecRequirements)
         \/ SettleSteps(c)

Spec == Init /\ [][Next]_vars

\* SpecVerify: verify() calls only, of one nonce and every validity, with the
\* clock running.
VerifyPayloads ==
    {WellFormed(vb, "n1", "", 0) : vb \in 1..MaxTime + 1}

InitVerify ==
    /\ Init
    /\ agentWallet = FALSE

NextVerify ==
    \/ \E c \in Calls :
         \/ VerifyStart(c, VerifyPayloads, SpecRequirements)
         \/ MintLookup(c)
    \/ Tick

SpecVerify == InitVerify /\ [][NextVerify]_vars

\* SpecChecks: one verify() call, on every combination of the fields the checks
\* read, against a ledger that is empty or holds the nonce unexpired.
ChecksValidBefore ==
    {0, MaxTime - 1, MaxTime, MaxTime + 1,
     MaxTime + 1 + GraceSeconds, MaxTime + 2 + GraceSeconds}

ChecksAuthorized ==
    {Payload(1, "exact", "solana-devnet", TRUE, val, to, asset, vb, n, tx, h) :
       val \in {Str(0), Str(1), Str(2)}, to \in {"P", "Q"},
       asset \in {"USDC", "WSOL", "notakey"}, vb \in ChecksValidBefore,
       n \in {"", "n1"}, tx \in {"", "txGood", "txAmt2"}, h \in {0, 1}}

ChecksUnauthorized ==
    {Payload(1, "exact", "solana-devnet", FALSE, Str(0), "", "", 0, "", "", 0)}

ChecksPayloads ==
    {[p EXCEPT !.x402Version = ver, !.scheme = sch, !.network = net] :
       p \in ChecksAuthorized \cup ChecksUnauthorized, ver \in {1, 2},
       sch \in {"exact", "upto"}, net \in NetworkIds}

ChecksRequirements ==
    {Requirements("exact", net, amt, "P", "USDC", timeout) :
       net \in NetworkIds, amt \in {Str(1), Num(1)}, timeout \in {0, 1}}

InitChecks ==
    /\ InitMarketplace
    /\ networkId \in NetworkIds
    /\ agentWallet = FALSE
    /\ seenNonces \in {<< >>, [n \in {"n1"} |-> MaxTime + 1]}
    /\ clock = MaxTime
    /\ calls = [c \in Calls |-> IdleCall]
    /\ landed = {}
    /\ transfers = << >>
    /\ registered = seenNonces
    /\ validReturned = << >>
    /\ result = IdleCall
    /\ connection = NewConnection
    /\ peerNonces = << >>
    /\ pureCall = NoPureCall

NoCallYet == result = IdleCall /\ \A c \in Calls : calls[c].pc = "idle"

NextChecks ==
    \/ NoCallYet /\ VerifyUndecodable("c1")
    \/ NoCallYet /\ VerifyStart("c1", ChecksPayloads, ChecksRequirements)
    \/ VerifySteps("c1")

SpecChecks == InitChecks /\ [][NextChecks]_vars

\* SpecTx: one verify() call of a payload that carries a transaction, on every
\* transaction, against requirements that the authorization may or may not meet.
TxPayloads ==
    {Payload(1, "exact", "solana-devnet", TRUE, val, to, "USDC", MaxTime + 1, "n1",
             tx, h) :
       val \in {Str(1), Str(2)}, to \in {"P", "Q"}, tx \in DOMAIN Transactions,
       h \in {0, 1}}

TxRequirements ==
    {Requirements("exact", "solana-devnet", amt, payTo, "USDC", 0) :
       amt \in {Str(1), Str(2)}, payTo \in {"P", "Q"}}

InitTx ==
    /\ Init
    /\ agentWallet = FALSE

NextTx ==
    \/ NoCallYet /\ VerifyStart("c1", TxPayloads, TxRequirements)
    \/ VerifySteps("c1")

SpecTx == InitTx /\ [][NextTx]_vars

\* SpecSettle: settle() calls, one at a time, on both paths, with and without
\* an authorization, a signing key, a transaction that parses and verifies.
SettlePayloads ==
    {Payload(1, "exact", "solana-devnet", auth, Str(1), "P", "USDC", MaxTime + 1,
             "n1", tx, 0) :
       auth \in BOOLEAN, tx \in {"", "txGood", "txBadSig", "txGarbage"}}

NextSettle ==
    \/ SettleStart("c1", SettlePayloads, SpecRequirements)
    \/ SettleSteps("c1")

SpecSettle ==
    Init /\ [][NextSettle]_vars /\ WF_vars(SettleSteps("c1"))

\* SpecSchemes: getSupportedSchemes() called between the steps of verify() and
\* settle() calls, on a facilitator of either network.
InitSchemes ==
    /\ InitMarketplace
    /\ networkId \in NetworkIds
    /\ agentWallet \in BOOLEAN
    /\ seenNonces = << >>
    /\ clock = 0
    /\ calls = [c \in Calls |-> IdleCall]
    /\ landed = {}
    /\ transfers = << >>
    /\ registered = << >>
    /\ validReturned = << >>
    /\ result = IdleCall
    /\ connection = NewConnection
    /\ peerNonces = << >>
    /\ pureCall = NoPureCall

NextSchemes ==
    \/ VerifyStart("c1", SpecVerifyPayloads, SpecRequirements)
    \/ MintLookup("c1")
    \/ SettleStart("c1", SpecPayloads, SpecRequirements)
    \/ SettleSteps("c1")
    \/ GetSupportedSchemes

SpecSchemes == InitSchemes /\ [][NextSchemes]_vars

\* SpecPeers: two facilitator instances of one configuration, "A" serving its
\* verify() calls in slot c1 and "B" in slot c2, given the same payloads, with
\* the clock running.
PeersPayloads ==
    {WellFormed(vb, "n1", "", 0) : vb \in {1, MaxTime + 1}}
    \cup {[WellFormed(MaxTime + 1, "n1", "", 0) EXCEPT !.x402Version = 2]}

NextPeers ==
    \/ VerifyStart("c1", PeersPayloads, SpecRequirements)
    \/ PeerVerifyStart("c2", PeersPayloads, SpecRequirements)
    \/ \E c \in Calls : MintLookup(c)
    \/ Tick

SpecPeers == InitVerify /\ [][NextPeers]_vars

\* SpecRpc: one call of resolveRpcUrlForNetwork, on every network, with the
\* config left out or given with any of its entries, and any of the variables
\* of the environment set.
RpcConfigs ==
    {RpcConfig(FALSE, NoUrl, NoUrl, NoUrl)}
    \cup {RpcConfig(TRUE, d, m, t) :
            d \in {NoUrl, "config-devnet"}, m \in {NoUrl, "config-mainnet"},
            t \in {NoUrl, "config-testnet"}}

RpcEnvs ==
    {RpcEnv(d, m, t, g, n) :
       d \in {NoUrl, "env-devnet"}, m \in {NoUrl, "env-mainnet"},
       t \in {NoUrl, "env-testnet"}, g \in {NoUrl, "env-generic"},
       n \in {"", "devnet", "Testnet", "mainnet", "mainnet-beta", "MAINNET",
              "localnet"}}

InitRpc ==
    /\ InitMarketplace
    /\ networkId = networkToId("devnet")
    /\ agentWallet = FALSE
    /\ seenNonces = << >>
    /\ clock = 0
    /\ calls = [c \in Calls |-> IdleCall]
    /\ landed = {}
    /\ transfers = << >>
    /\ registered = << >>
    /\ validReturned = << >>
    /\ result = IdleCall
    /\ connection = NewConnection
    /\ peerNonces = << >>
    /\ \E network \in RpcNetworks, config \in RpcConfigs, env \in RpcEnvs :
         pureCall = [NoPureCall EXCEPT !.fn = "resolveRpcUrlForNetwork",
                                       !.args = <<network, config, env>>]

NextRpc == ResolveRpcUrlForNetwork

SpecRpc == InitRpc /\ [][NextRpc]_vars

\* SpecSweep: verify() calls, one at a time, of two nonces and every validity,
\* and calls that fail the version check, with the clock running.
SweepPayloads ==
    {WellFormed(vb, n, "", 0) : vb \in 1..MaxTime, n \in {"n1", "n2"}}
    \cup {[WellFormed(MaxTime, "n1", "", 0) EXCEPT !.x402Version = 2]}

NextSweep ==
    \/ VerifyStart("c1", SweepPayloads, SpecRequirements)
    \/ MintLookup("c1")
    \/ Tick

SpecSweep == InitVerify /\ [][NextSweep]_vars

\* SpecSpend: verify() calls of one nonce, one at a time, that pass the replay
\* check and then succeed or fail at the mint, the height or the transaction,
\* settle() calls beside them, and the clock running.
SpendPayloads ==
    {Payload(1, "exact", "solana-devnet", TRUE, Str(1), "P", f[1], vb, "n1",
             f[2], f[3]) :
       vb \in {1, MaxTime + 1},
       f \in {<<"USDC", "txGood", 0>>, <<"WSOL", "txGood", 0>>,
              <<"USDC", "txGood", 1>>, <<"USDC", "txOpcode", 0>>}}

SpendSettled == {WellFormed(MaxTime + 1, "n1", "txGood", 0)}

SpendRequirements ==
    {Requirements("exact", "solana-devnet", Str(1), "P", asset, 0) :
       asset \in {"USDC", "WSOL"}}

NextSpend ==
    \/ VerifyStart("c1", SpendPayloads, SpendRequirements)
    \/ VerifySteps("c1")
    \/ SettleStart("c2", SpendSettled, SpecRequirements)
    \/ SendRawTransaction("c2")
    \/ ConfirmTransaction("c2")
    \/ Backoff("c2")
    \/ Tick

SpecSpend == InitVerify /\ [][NextSpend]_vars

\* SpecDecode: the data of one token instruction is checked and decoded: every
\* opcode below, amounts whose four low bytes vary up to the largest value an
\* integer of the model holds, bytes after the ninth, and data cut short.
AmountBytes ==
    {<<b1, b2, b3, b4, 0, 0, 0, 0>> :
       b1 \in {0, 1, 255}, b2 \in {0, 1, 255}, b3 \in {0, 2, 255},
       b4 \in {0, 1, 127}}

InstructionData ==
    LET whole == {<<op>> \o bytes \o more :
                    op \in {0, TransferOpcode, TransferOpcode + 1},
                    bytes \in AmountBytes, more \in {<< >>, <<7>>, <<255, 9>>}}
    IN  whole \cup {SubSeq(d, 1, k) : d \in whole, k \in {0, 1, MinDataLength - 1}}

InitDecode ==
    /\ InitMarketplace
    /\ networkId = networkToId("devnet")
    /\ agentWallet = FALSE
    /\ seenNonces = << >>
    /\ clock = 0
    /\ calls = [c \in Calls |-> IdleCall]
    /\ landed = {}
    /\ transfers = << >>
    /\ registered = << >>
    /\ validReturned = << >>
    /\ result = IdleCall
    /\ connection = NewConnection
    /\ peerNonces = << >>
    /\ \E data \in InstructionData :
         pureCall = [NoPureCall EXCEPT !.fn = "readU64", !.args = <<data>>]

NextDecode == DecodeTransferAmount

SpecDecode == InitDecode /\ [][NextDecode]_vars

\* SpecReject: verify() calls, one at a time, of a payload that passes every
\* header check and of the payloads that differ from it in one field, and
\* calls whose header does not decode or decodes to null, against a ledger
\* that holds an expired entry, an unexpired one, both or none.
GoodPayload == WellFormed(MaxTime + 1, "n1", "", 0)

RejectPayloads ==
    {GoodPayload,
     [GoodPayload EXCEPT !.x402Version = 2],
     [GoodPayload EXCEPT !.scheme = "upto"],
     [GoodPayload EXCEPT !.network = "solana-mainnet-beta"],
     [GoodPayload EXCEPT !.hasAuth = FALSE],
     [GoodPayload EXCEPT !.value = Str(2)],
     [GoodPayload EXCEPT !.to = "Q"],
     [GoodPayload EXCEPT !.asset = "WSOL"],
     [GoodPayload EXCEPT !.validBefore = 0],
     [GoodPayload EXCEPT !.validBefore = MaxTime - 1],
     [GoodPayload EXCEPT !.validBefore = MaxTime + 2 + GraceSeconds],
     [GoodPayload EXCEPT !.nonce = ""]}

RejectRequirements ==
    {Requirements("exact", "solana-devnet", Str(1), "P", "USDC", 1)}

InitReject ==
    /\ InitMarketplace
    /\ networkId = networkToId("devnet")
    /\ agentWallet = FALSE
    /\ seenNonces \in {[n \in S |-> IF n = "n1" THEN MaxTime + 1 ELSE MaxTime] :
                         S \in SUBSET {"n1", "n2"}}
    /\ clock = MaxTime
    /\ calls = [c \in Calls |-> IdleCall]
    /\ landed = {}
    /\ transfers = << >>
    /\ registered = seenNonces
    /\ validReturned = << >>
    /\ result = IdleCall
    /\ connection = NewConnection
    /\ peerNonces = << >>
    /\ pureCall = NoPureCall

NextReject ==
    \/ VerifyUndecodable("c1")
    \/ VerifyNullPayload("c1")
    \/ VerifyStart("c1", RejectPayloads, RejectRequirements)
    \/ MintLookup("c1")

SpecReject == InitReject /\ [][NextReject]_vars

\* SpecTwins: two facilitator instances in the same state, ledger included.
\* "A" verifies a payload; when it has returned, "B" verifies a payload that
\* differs from it in the payer only, in the authorization, in the source
\* account and signer of the transaction, or in both.
Payers == {"A", "E"}

\* The transaction that differs from tx in its source account and signer.
TwinTx(tx) ==
    CASE tx = "txGood" -> "txGoodE"    [] tx = "txGoodE" -> "txGood"
      [] tx = "txAmt2" -> "txAmt2E"    [] tx = "txAmt2E" -> "txAmt2"
      [] tx = "txBadSig" -> "txBadSigE" [] tx = "txBadSigE" -> "txBadSig"
      [] OTHER -> tx

Twins(p) ==
    {[p EXCEPT !.from = payer, !.tx = tx] :
       payer \in Payers, tx \in {p.tx, TwinTx(p.tx)}}

TwinsPayloads ==
    {[Payload(1, "exact", "solana-devnet", TRUE, val, "P", "USDC", MaxTime + 1,
              "n1", tx, 0) EXCEPT !.from = payer] :
       val \in {Str(1), Str(2)}, payer \in Payers,
       tx \in {"", "txGood", "txGoodE", "txAmt2", "txBadSig", "txToQ"}}

InitTwins ==
    /\ InitChecks
    /\ networkId = networkToId("devnet")
    /\ peerNonces = seenNonces

NextTwins ==
    \/ NoCallYet /\ VerifyStart("c1", TwinsPayloads, SpecRequirements)
    \/ /\ result.op = "verify" /\ result.this = "A"
       /\ calls["c2"].pc = "idle"
       /\ PeerVerifyStart("c2", Twins(result.p), {result.r})
    \/ \E c \in Calls : MintLookup(c) \/ DestinationLookup(c)

SpecTwins == InitTwins /\ [][NextTwins]_vars

\* SpecBlind: a verify() call or none, then one settle() call, on one facilitator with the
\* clock running.  The payloads are expired or not, match the requirements or
\* not, carry a transaction or none; settle() is given the requirements
\* verify() was given, other ones, or none.
BlindPayloads ==
    {Payload(1, "exact", "solana-devnet", auth, Str(1), "P", "USDC", vb, "n1",
             tx, 0) :
       auth \in BOOLEAN, vb \in {1, MaxTime + 1},
       tx \in {"", "txGood", "txBadSig", "txGarbage"}}

BlindRequirements ==
    SpecRequirements
      \cup {Requirements("exact", "solana-mainnet-beta", Str(2), "Q", "WSOL", 1),
            NoRequirements}

NextBlind ==
    \/ NoCallYet /\ VerifyStart("c1", BlindPayloads, SpecRequirements)
    \/ MintLookup("c1")
    \/ DestinationLookup("c1")
    \/ /\ result.op # "settle"
       /\ SettleStart("c1", BlindPayloads, BlindRequirements)
    \/ SettleSteps("c1")
    \/ Tick

SpecBlind == Init /\ [][NextBlind]_vars

\* SpecWrapper: on() and stop() calls on one ConversationWrapper in any order,
\* the agent sending messages and deliveries, and the polls of the timer.
NextWrapper ==
    \/ \E event \in {"message", "delivery"} :
         On(event, Len(wrapper.messageHandlers) + Len(wrapper.deliveryHandlers) + 1)
    \/ Stop
    \/ \E kind \in {"message", "delivery"} : AgentSends(kind)
    \/ PollStart
    \/ PollMessages
    \/ PollDeliveries

SpecWrapper == InitVerify /\ [][NextWrapper]_vars

\* SpecConsumer: init() and startConversation() calls on one consumer, one at a
\* time, in any order, every request answered or failing.
NextConsumer ==
    \/ ConsumerInit
    \/ MarketplaceInfo
    \/ \E agentId \in Agents : StartConversation(agentId)
    \/ AgentDetails
    \/ CreateConversation

SpecConsumer == InitVerify /\ [][NextConsumer]_vars

\* SpecA2A: handlers registered, tasks created and requests handled on one
\* A2AServer, one request at a time, the handler returning or throwing.
RequestIds == {1, 2}

NextA2A ==
    \/ \E method \in Methods : RegisterHandler(method)
    \/ CreateTask
    \/ \E id \in RequestIds, method \in Methods : HandleRequest(id, method)
    \/ HandlerSettles

SpecA2A == InitVerify /\ [][NextA2A]_vars

\* SpecProvider: handlers set, start() and stop() calls in any order on one
\* MarketplaceProvider, and the callbacks of its timers, one at a time.
NextProvider ==
    \/ OnMessage
    \/ OnOrderPaid
    \/ Start
    \/ ProviderStop
    \/ ProviderPoll
    \/ ProviderMessages
    \/ ProviderOrders

SpecProvider == InitVerify /\ [][NextProvider]_vars

\* SpecCalls: one call, verify() or settle(), on arguments that decode, do not
\* decode or are null, every ledger call answering or faulting.
CallsPayloads ==
    {WellFormed(MaxTime + 1, "n1", tx, h) : tx \in {"", "txGood"}, h \in {0, 1}}
    \cup {[WellFormed(MaxTime + 1, "n1", "", 0) EXCEPT !.x402Version = 2]}

NextCalls ==
    \/ NoCallYet /\ VerifyUndecodable("c1")
    \/ NoCallYet /\ VerifyNullPayload("c1")
    \/ NoCallYet /\ VerifyNullRequirements("c1", CallsPayloads)
    \/ NoCallYet /\ VerifyStart("c1", CallsPayloads, SpecRequirements)
    \/ VerifySteps("c1")
    \/ NoCallYet /\ SettleUndecodable("c1")
    \/ NoCallYet /\ SettleNullPayload("c1")
    \/ NoCallYet /\ SettleStart("c1", SettlePayloads,
                                SpecRequirements \cup {NoRequirements})
    \/ SettleSteps("c1")

SpecCalls ==
    Init /\ [][NextCalls]_vars /\ WF_vars(VerifySteps("c1") \/ SettleSteps("c1"))

\* ------------------------------------------------------------- the claims
\* rec is the record of a verify() call made in the step: either the call left
\* its slot busy, or it returned at once and only the history changed.
MadeNow(rec) ==
    /\ rec.op = "verify"
    /\ \/ calls' = calls /\ result' # result /\ rec = result'
       \/ \E c \in Calls : calls[c].pc = "idle" /\ calls'[c].pc # "idle"
                           /\ rec = calls'[c]

\* The reasons of the checks that precede the replay check.
HeaderReasons ==
    {"Verification error", "Invalid x402 version", "Scheme mismatch",
     "Network mismatch", "No authorization found", "Amount mismatch",
     "Recipient mismatch", "Asset mismatch", "Payment expired",
     "Invalid validity window", "Missing nonce"}

ReachedReplayCheck(rec) == rec.reason \notin HeaderReasons

\* C1 as stated: once a verify() of a nonce has returned isValid:true, a later
\* verify() of that nonce that passes the checks before the replay check returns
\* 'Replay detected', whatever the clock did in between.
C1_ReplayAlways ==
    [][\A rec \in {result'} \cup {calls'[c] : c \in Calls} :
         (/\ MadeNow(rec)
          /\ ReachedReplayCheck(rec)
          /\ Lookup(validReturned, rec.p.nonce) > 0)
         => rec.pc = "returned" /\ rec.reason = "Replay detected"]_vars

\* C1, amended: once a verify() of a nonce has returned isValid:true with
\* validBefore e, a later verify() of that nonce that passes the checks before the
\* replay check and whose sweep reads a clock value below e returns
\* 'Replay detected'.
C1_ReplayBeforeExpiry ==
    [][\A rec \in {result'} \cup {calls'[c] : c \in Calls} :
         (/\ MadeNow(rec)
          /\ ReachedReplayCheck(rec)
          /\ Lookup(validReturned, rec.p.nonce) > rec.t)
         => rec.pc = "returned" /\ rec.reason = "Replay detected"]_vars

\* A verify() was answered 'Replay detected' before the validBefore of an earlier
\* valid verify() of its nonce.
C1_Witness ==
    /\ result.op = "verify" /\ result.reason = "Replay detected"
    /\ Lookup(validReturned, result.p.nonce) > result.t

\* C2 as stated: of two verify() calls of one nonce that were in flight together,
\* at most one returns isValid:true.
C2_AtMostOneValid ==
    (result.op = "verify" /\ result.ok) => result.rivals = {}

\* C2, amended: two verify() calls of one nonce that were in flight together both
\* pass the replay check (and so both may return isValid:true) only when the
\* replay check of one ran at or after the validBefore of the other, that is when
\* the earlier registration had expired.
C2_AtMostOneValidUnlessExpired ==
    /\ (result.op = "verify" /\ result.ok) =>
         \A rival \in result.rivals :
            result.t >= rival[2] \/ rival[1] >= result.p.validBefore
    /\ \A c, d \in Calls :
         (/\ c # d
          /\ calls[c].op = "verify" /\ calls[d].op = "verify"
          /\ calls[c].registered /\ calls[d].registered
          /\ calls[c].p.nonce = calls[d].p.nonce)
         => \/ calls[c].t >= calls[d].p.validBefore
            \/ calls[d].t >= calls[c].p.validBefore

\* Two verify() calls of one nonce, in flight together, have both returned valid.
C2_Witness ==
    result.op = "verify" /\ result.ok /\ result.rivals # {}

\* C3: a nonce that was recorded with expiry e is never recorded again by a
\* verify() whose replay check runs at a clock value below e.
C3_NoReuseBeforeExpiry ==
    [][\A rec \in {result'} \cup {calls'[c] : c \in Calls} :
         (MadeNow(rec) /\ rec.registered)
         => rec.t >= Lookup(registered, rec.p.nonce)]_vars

\* A nonce was recorded a second time: the ledger holds it with an expiry above
\* the one an earlier valid verify() recorded.
C3_Witness ==
    \E n \in DOMAIN seenNonces :
       /\ Lookup(validReturned, n) > 0
       /\ seenNonces[n] > Lookup(validReturned, n)

\* C4: a verify() that passes the checks before the replay check, and finds its
\* nonce in the ledger with an expiry below the clock value of its sweep, is not
\* rejected as a replay and records the nonce with its own validBefore.
C4_ReuseAfterExpiry ==
    [][\A rec \in {result'} \cup {calls'[c] : c \in Calls} :
         (/\ MadeNow(rec)
          /\ ReachedReplayCheck(rec)
          /\ rec.p.nonce \in DOMAIN seenNonces
          /\ seenNonces[rec.p.nonce] < rec.t)
         => /\ rec.reason # "Replay detected"
            /\ rec.registered
            /\ rec.p.nonce \in DOMAIN seenNonces'
            /\ seenNonces'[rec.p.nonce] = rec.p.validBefore]_vars

\* A call in flight recorded, with a validBefore in the future, a nonce that an
\* earlier valid verify() had recorded with an expiry that has elapsed.
C4_Witness ==
    \E c \in Calls :
       /\ calls[c].op = "verify" /\ calls[c].registered
       /\ Lookup(validReturned, calls[c].p.nonce) > 0
       /\ Lookup(validReturned, calls[c].p.nonce) < calls[c].t
       /\ calls[c].p.validBefore > clock
       /\ Lookup(seenNonces, calls[c].p.nonce) = calls[c].p.validBefore

\* C5: the ledger executes at most one transfer for one payload, and exactly one
\* when a settle() of it reported success.
C5_TransferOnce ==
    /\ \A p \in DOMAIN transfers : transfers[p] <= 1
    /\ (result.op = "settle" /\ result.ok) => TransferCount(result.p) = 1

\* The checks in the order the claim gives them, 1..14; 15: none has failed.
CheckOfReason(rec) ==
    CASE rec.reason = "Invalid x402 version" -> 1
      [] rec.reason = "Scheme mismatch" -> 2
      [] rec.reason = "Network mismatch" -> 3
      [] rec.reason = "No authorization found" -> 4
      [] rec.reason = "Amount mismatch" -> 5
      [] rec.reason = "Recipient mismatch" -> 6
      [] rec.reason = "Asset mismatch" -> 7
      [] rec.reason = "Payment expired" -> 8
      [] rec.reason = "Invalid validity window" -> 9
      [] rec.reason = "Missing nonce" -> 10
      [] rec.reason = "Replay detected" -> 11
      [] rec.reason \in {"Invalid public key input", "Mint account not found",
                         "Unexpected mint decimals (expected 6 for USDC)"} -> 12
      [] rec.reason = "failed to get info about account" /\ rec.at = "mint" -> 12
      [] rec.reason \in {"Blockhash expired", "failed to get block height"} -> 13
      [] rec.reason = "" -> 15
      [] OTHER -> 14

\* Check j of the first ten passes on the arguments of the call.
HeaderPasses(j, rec) ==
    CASE j = 1 -> VersionOk(rec.p)
      [] j = 2 -> SchemeOk(rec.p, rec.r)
      [] j = 3 -> NetworkOk(rec.p, networkId)
      [] j = 4 -> AuthorizationPresent(rec.p)
      [] j = 5 -> AmountOk(rec.p, rec.r)
      [] j = 6 -> RecipientOk(rec.p, rec.r)
      [] j = 7 -> AssetOk(rec.p, rec.r)
      [] j = 8 -> NotExpired(rec.p, rec.t0)
      [] j = 9 -> WindowOk(rec.p, rec.r, rec.t0)
      [] OTHER -> NoncePresent(rec.p)

\* The ledger lookups of the checks 12 (mint), 13 (height) and 14 (destination)
\* that the arguments of the call ask for.
LookupsOf(rec, k) ==
    (IF k >= 12 THEN 1 ELSE 0)
    + (IF k >= 13 /\ rec.p.lvbh # 0 THEN 1 ELSE 0)
    + (IF k >= 14 /\ rec.p.tx # "" THEN 1 ELSE 0)

\* C6: the checks run in the order version, scheme, network, authorization
\* present, amount, payee, asset, expiry, validity window, nonce present, replay,
\* asset precision, transaction height, instruction-level validation: the
\* result of verify() is the reason of the first check that fails, every check
\* before it passes, and no check after it is evaluated (the nonce is recorded
\* only past check 11, and no ledger lookup of a later check is issued).
C6_CheckOrder ==
    (result.op = "verify" /\ result.p # NoPayload) =>
       LET k == CheckOfReason(result) IN
       /\ result.ok <=> k = 15
       /\ \A j \in 1..10 : j < k => HeaderPasses(j, result)
       /\ k <= 10 => ~HeaderPasses(k, result)
       /\ k <= 11 => ~result.registered /\ result.requests = 0
       /\ k >= 12 => result.registered
       /\ k >= 13 => MintDecimals(result.p.asset) = ExpectedDecimals
       /\ k = 12 => result.requests <= 1
       /\ k = 13 => result.p.lvbh # 0 /\ result.requests = 2
       /\ k = 14 => /\ result.p.tx # ""
                    /\ result.requests \in {LookupsOf(result, 13), LookupsOf(result, 14)}
       /\ k = 15 => result.requests = LookupsOf(result, 14)

\* verify() stopped at the height check of a payload that carries a transaction:
\* the destination lookup of the later check was not issued.
C6_Witness ==
    /\ result.op = "verify" /\ result.reason = "Blockhash expired"
    /\ result.p.tx # "" /\ result.requests = 2

\* C7: a verify() of a payload whose version is not 1 returns isValid:false
\* with 'Invalid x402 version', whatever its other fields, and leaves the nonce
\* ledger as it was.
C7_VersionRejected ==
    [][\A rec \in {result'} \cup {calls'[c] : c \in Calls} :
         (MadeNow(rec) /\ rec.p # NoPayload /\ rec.p.x402Version # 1)
         => /\ rec.pc = "returned" /\ ~rec.ok
            /\ rec.reason = "Invalid x402 version"
            /\ seenNonces' = seenNonces]_vars

\* A payload of another version, otherwise acceptable and with a fresh nonce, was
\* rejected for its version and the ledger does not hold its nonce.
C7_Witness ==
    /\ result.op = "verify" /\ result.reason = "Invalid x402 version"
    /\ \A j \in 2..10 : HeaderPasses(j, result)
    /\ result.p.nonce \notin DOMAIN seenNonces

\* C8: a verify() whose payload passes the checks before the amount check and
\* whose amount differs numerically from the required amount (zero included)
\* fails with 'Amount mismatch', whatever its validity, nonce and transaction.
C8_AmountMismatch ==
    (/\ result.op = "verify" /\ result.p # NoPayload
     /\ \A j \in 1..4 : HeaderPasses(j, result)
     /\ Number(result.p.value) # Number(result.r.maxAmountRequired))
    => ~result.ok /\ result.reason = "Amount mismatch"

\* An overpaying payload that is expired and has no nonce was rejected for its
\* amount.
C8_Witness ==
    /\ result.op = "verify" /\ result.reason = "Amount mismatch"
    /\ Number(result.p.value) > Number(result.r.maxAmountRequired)
    /\ ~NotExpired(result.p, result.t0) /\ ~NoncePresent(result.p)

\* C9: a verify() whose payload passes the checks before the expiry check and
\* whose validBefore is missing or at or before the clock value of the check
\* fails with 'Payment expired'.
C9_ExpiredAtOrBeforeNow ==
    (/\ result.op = "verify" /\ result.p # NoPayload
     /\ \A j \in 1..7 : HeaderPasses(j, result)
     /\ (result.p.validBefore = 0 \/ result.p.validBefore <= result.t0))
    => ~result.ok /\ result.reason = "Payment expired"

\* C10: a verify() whose payload passes the version and scheme checks and whose
\* network differs from the network of the requirements fails with
\* 'Network mismatch'.
C10_NetworkAgainstRequirements ==
    (/\ result.op = "verify" /\ result.p # NoPayload
     /\ \A j \in 1..2 : HeaderPasses(j, result)
     /\ result.r.network # ""
     /\ result.p.network # result.r.network)
    => ~result.ok /\ result.reason = "Network mismatch"

\* The ledger did not hold the nonce of the call when the call was made: the
\* call recorded it, or it was never recorded.
FreshAtCall(rec) ==
    rec.registered \/ rec.p.nonce \notin DOMAIN registered

\* The call ended on a fault of a ledger lookup.
LookupFault(rec) ==
    rec.reason \in {"failed to get info about account", "failed to get block height"}

\* C11: verify() returns isValid:true for every payload without a transaction
\* (and without a block height to check) whose version is 1, whose scheme,
\* network, payee and asset equal those of the requirements, whose amount is
\* numerically the required amount, whose validBefore lies in
\* (now, now + maxTimeoutSeconds + 30], whose nonce is present and not in the
\* ledger and whose asset has precision 6 on the ledger, when no lookup faults.
C11_WellFormedAccepted ==
    (/\ result.op = "verify" /\ result.p # NoPayload
     /\ result.p.tx = "" /\ result.p.lvbh = 0
     /\ result.p.x402Version = 1 /\ result.p.hasAuth
     /\ result.p.scheme = result.r.scheme
     /\ result.p.network = result.r.network
     /\ Number(result.p.value) = Number(result.r.maxAmountRequired)
     /\ result.p.to = result.r.payTo
     /\ result.p.asset = result.r.asset
     /\ result.p.validBefore > result.t0
     /\ result.p.validBefore <= result.t0 + result.r.maxTimeoutSeconds + GraceSeconds
     /\ result.p.nonce # "" /\ FreshAtCall(result)
     /\ MintDecimals(result.p.asset) = ExpectedDecimals
     /\ ~LookupFault(result))
    => result.ok

\* The instructions of the transaction of p that target the token program.
TokenInstructions(p) ==
    LET ixs == Transactions[p.tx].instructions IN
    {i \in 1..Len(ixs) : ixs[i].programId = "TOKEN_PROGRAM_ID"}

\* The transaction of p has one token instruction, and it is a transfer
\* (opcode 3, eight bytes of amount).
OneTransfer(p) ==
    /\ p.tx # "" /\ Transactions[p.tx].deser
    /\ Cardinality(TokenInstructions(p)) = 1
    /\ \A i \in TokenInstructions(p) :
          LET ix == Transactions[p.tx].instructions[i] IN
          Len(ix.data) >= 9 /\ ix.data[1] = 3

\* The amount that token instruction i of the transaction of p encodes.
EncodedAmount(p, i) ==
    LET d == Transactions[p.tx].instructions[i].data IN
    d[2] + 256 * (d[3] + 256 * (d[4] + 256 * (d[5] + 256 * (d[6] + 256 * (d[7]
         + 256 * (d[8] + 256 * d[9]))))))

\* C12: a verify() of a payload whose transaction's transfer instruction encodes
\* an amount other than authorization.value never returns valid, and when the
\* authorization meets the requirements and the checks before the
\* instruction-level validation pass, its reason is 'Transfer amount mismatch'.
C12_TransferAmountMismatch ==
    (/\ result.op = "verify" /\ result.p # NoPayload
     /\ OneTransfer(result.p)
     /\ \E i \in TokenInstructions(result.p) :
           EncodedAmount(result.p, i) # Number(result.p.value))
    => /\ ~result.ok
       /\ (/\ \A j \in 1..10 : HeaderPasses(j, result)
           /\ result.registered
           /\ Transactions[result.p.tx].sigOk
           /\ CheckOfReason(result) >= 14)
          => result.reason = "Transfer amount mismatch"

\* An authorization that meets the requirements was rejected for the amount of
\* its transaction.
C12_Witness ==
    /\ result.op = "verify" /\ result.reason = "Transfer amount mismatch"
    /\ \A j \in 1..10 : HeaderPasses(j, result)

\* C13: a transaction that verify() accepted has valid signatures and exactly
\* one instruction of the token program; that instruction is a transfer of
\* authorization.value to an account whose owner on the ledger is
\* authorization.to and whose mint is authorization.asset.
C13_ExactlyTheAuthorizedTransfer ==
    (result.op = "verify" /\ result.ok /\ result.p.tx # "") =>
       /\ Transactions[result.p.tx].sigOk
       /\ OneTransfer(result.p)
       /\ \A i \in TokenInstructions(result.p) :
             LET ix == Transactions[result.p.tx].instructions[i] IN
             /\ EncodedAmount(result.p, i) = Number(result.p.value)
             /\ Len(ix.keys) >= 2
             /\ ChainAccounts(ix.keys[2]).owner = result.p.to
             /\ ChainAccounts(ix.keys[2]).mint = result.p.asset

\* The places where a call can be: not made, or suspended at one of its awaits.
Stages ==
    {"idle", "mint", "height", "dest", "send", "confirm", "sleep", "fromAccount",
     "toAccount", "transfer"}

\* rec is a result delivered to the caller: {isValid, invalidReason} or
\* {success, error}, with a reason exactly when the call failed.
StructuredResult(rec) ==
    /\ rec.op \in {"verify", "settle"}
    /\ rec.pc = "returned"
    /\ rec.ok <=> rec.reason = ""

\* C14: verify() and settle() never raise: on every input (undecodable or null
\* header, null requirements, missing fields) and every fault of a ledger call,
\* the call is always at one of its awaits until it completes, it does
\* complete, and what it delivers is a structured result.
C14_NeverRaises ==
    /\ [](\A c \in Calls : calls[c].pc \in Stages)
    /\ [](result # IdleCall => StructuredResult(result))
    /\ [][\A c \in Calls :
            (calls[c].pc # "idle" /\ calls'[c].pc = "idle")
            => result'.op = calls[c].op /\ result'.p = calls[c].p]_vars
    /\ \A c \in Calls : (calls[c].pc # "idle") ~> (calls[c].pc = "idle")

\* A settle() whose ledger calls faulted until the attempts were used up has
\* delivered a failure.
C14_Witness ==
    /\ result.op = "settle" /\ ~result.ok
    /\ result.cause = "confirmation failed"
    /\ result.attempt = maxAttempts - 1

\* The failures of an attempt of the pre-signed path at its two ledger calls.
SubmissionFailures == {"send failed", "confirmation failed"}

\* C15: a settle() on the pre-signed path makes at most 3 attempts, each with at
\* most one submission (a submission opens the call or follows a backoff, with
\* the attempt counted up by one); a confirmation that succeeds ends the call
\* with success, so that no attempt follows it; and the call terminates.
C15_BoundedAttempts ==
    /\ [](\A c \in Calls : calls[c].attempt <= maxAttempts - 1)
    /\ [][\A c \in Calls :
            /\ (calls'[c].pc = "send" /\ calls[c].pc # "send")
               => \/ calls[c].pc = "idle" /\ calls'[c].attempt = 0
                  \/ calls[c].pc = "sleep"
                     /\ calls'[c].attempt = calls[c].attempt + 1
            /\ (calls[c].pc = "confirm" /\ calls'[c].pc # "confirm")
               => \/ calls'[c].pc = "idle" /\ result'.ok
                     /\ result'.attempt = calls[c].attempt
                  \/ calls'[c].pc = "sleep" /\ calls'[c].cause = "confirmation failed"
                     /\ calls'[c].attempt = calls[c].attempt
                  \/ calls'[c].pc = "idle" /\ ~result'.ok
                     /\ result'.cause = "confirmation failed"
                     /\ calls[c].attempt = maxAttempts - 1]_vars
    /\ \A c \in Calls : (calls[c].pc # "idle") ~> (calls[c].pc = "idle")

\* A settle() has ended in failure after its third attempt.
C15_Witness ==
    /\ result.op = "settle" /\ ~result.ok /\ result.p.tx # ""
    /\ result.attempt = maxAttempts - 1
    /\ result.cause \in SubmissionFailures

\* C16: when all 3 attempts of the pre-signed path have failed, the error of the
\* result of settle() carries the error of the last failed attempt.
C16_LastErrorReported ==
    (/\ result.op = "settle" /\ ~result.ok /\ result.p.tx # ""
     /\ result.attempt = maxAttempts - 1
     /\ result.cause \in SubmissionFailures)
    => result.reason = result.cause

\* C17: a settle() that succeeds on its third attempt, the first two having
\* failed, returns success from the confirmation of that attempt, with the
\* reference its submission returned, the transaction being on the ledger.
C17_ThirdAttemptSucceeds ==
    (/\ result.op = "settle" /\ result.p.tx # ""
     /\ result.attempt = maxAttempts - 1
     /\ result.ok)
    => /\ result.at = "confirm"
       /\ result.sig = result.p.tx
       /\ result.sig \in landed

\* A settle() has succeeded on its third attempt.
C17_Witness ==
    /\ result.op = "settle" /\ result.ok /\ result.p.tx # ""
    /\ result.attempt = maxAttempts - 1
    /\ result.cause \in SubmissionFailures

\* The awaits of the pre-signed path and those of the legacy path.
PreSignedStages == {"send", "confirm", "sleep"}
LegacyStages == {"fromAccount", "toAccount", "transfer"}

\* C18: a settle() runs one path, chosen by the presence of a signedTransaction.
\* With one, the call is only ever at the awaits of the pre-signed path, returns
\* from there or before any await, and a transfer counted for its payload is its
\* transaction on the ledger; without one, the call is only ever at the awaits of
\* the legacy path and no transaction of a payload is submitted.
C18_OnePath ==
    /\ \A c \in Calls :
         calls[c].op = "settle" =>
            IF calls[c].p.tx # ""
            THEN calls[c].pc \in PreSignedStages
            ELSE calls[c].pc \in LegacyStages /\ calls[c].sig = ""
    /\ result.op = "settle" =>
         IF result.p.tx # ""
         THEN /\ result.at \in PreSignedStages \cup {"start"}
              /\ result.sig # "legacySignature"
              /\ result.balance = 0
         ELSE /\ result.at \in LegacyStages \cup {"start"}
              /\ result.sig \in {"", "legacySignature"}
              /\ result.attempt = 0
    /\ \A p \in DOMAIN transfers :
         p.tx # "" => transfers[p] = 1 /\ p.tx \in landed

\* A settle() of a transaction that does not parse has failed, the facilitator
\* holding a signing key, and nothing was transferred.
C18_Witness ==
    /\ result.op = "settle" /\ result.p.tx = "txGarbage" /\ result.p.hasAuth
    /\ agentWallet /\ ~result.ok /\ result.at = "start"
    /\ transfers = << >>

\* C19: a settle() on the legacy path that finds the balance of the paying
\* account below authorization.value returns a failure that names the
\* insufficient balance, and transfers nothing.
C19_InsufficientBalance ==
    (/\ result.op = "settle" /\ result.p.tx = ""
     /\ result.at = "toAccount"
     /\ result.balance < Number(result.p.value)
     /\ result.cause # "failed to get info about account")
    => /\ ~result.ok
       /\ result.reason = "Insufficient USDC balance"

\* C20: only a failure of the submission or of the confirmation is retried: a
\* backoff follows no other failure, a call that ends on another failure ends
\* in its first attempt, and a call on the legacy path transfers at most once.
C20_OnlySubmissionRetried ==
    /\ [](\A c \in Calls :
            calls[c].pc = "sleep" => calls[c].cause \in SubmissionFailures)
    /\ []((result.op = "settle" /\ ~result.ok
           /\ result.cause \notin SubmissionFailures)
          => result.attempt = 0)
    /\ [][\A c \in Calls, p \in DOMAIN transfers' :
            (calls[c].op = "settle" /\ calls[c].p.tx = "" /\ p = calls[c].p
             /\ transfers'[p] # Lookup(transfers, p))
            => calls[c].pc = "transfer" /\ calls'[c].pc = "idle"
               /\ transfers'[p] = Lookup(transfers, p) + 1]_vars

\* C21: settle() leaves the nonce ledger alone.  Every step of a settle() call,
\* whatever its arguments, the path it takes and the way it ends, leaves
\* seenNonces as it was.
SettleStep ==
    \/ \E c \in Calls : calls'[c] # calls[c]
                         /\ (calls[c].op = "settle" \/ calls'[c].op = "settle")
    \/ result' # result /\ result'.op = "settle"

C21_SettleLeavesLedger == [][SettleStep => seenNonces' = seenNonces]_vars

C21_Witness ==
    /\ result.op = "settle" /\ result.ok
    /\ seenNonces # << >>
    /\ \E c \in Calls : calls[c].op = "settle" /\ calls[c].pc # "idle"

\* C24: the instance has one connection.  The constructor creates it, no
\* operation creates another, and every ledger access of verify() and settle()
\* goes through it.
C24_OneConnection ==
    /\ connection.created = NewConnection.created
    /\ connection.handle = NewConnection.handle
    /\ connection.used \subseteq {NewConnection.handle}

C24_Witness ==
    /\ connection.used = {NewConnection.handle}
    /\ result.op = "settle" /\ result.ok
    /\ \E c \in Calls : calls[c].op = "verify" /\ calls[c].pc = "mint"

\* C22: getSupportedSchemes() is pure.  Every call on an instance returns the
\* one kind {scheme 'exact', network of the instance}, the same as the call
\* before it whatever verify() and settle() did in between, and the call
\* changes nothing of the facilitator.
SchemesCalled == pureCall'.count # pureCall.count

C22_SchemesPure ==
    /\ [](pureCall.done
          => pureCall.value = {[scheme |-> "exact", network |-> networkId]})
    /\ [][networkId' = networkId]_vars
    /\ [][(SchemesCalled /\ pureCall.done)
          => pureCall'.value = pureCall.value]_vars
    /\ [][SchemesCalled
          => UNCHANGED <<networkId, agentWallet, seenNonces, connection, calls,
                         landed, transfers>>]_vars

C22_Witness ==
    /\ pureCall.count = MaxQueries
    /\ pureCall.value = {[scheme |-> "exact", network |-> "solana-mainnet-beta"]}
    /\ result.op = "verify"
    /\ calls["c1"].op = "settle" /\ calls["c1"].pc = "confirm"

\* C23: two facilitator instances share no nonce state.  A verify() on one
\* instance leaves the ledger of the other as it was, and the replay check of a
\* verify() on "B" answers from the ledger of "B" alone: a nonce that "A" holds
\* and "B" does not is accepted by "B".
C23_LedgersApart ==
    [][\A rec \in {result'} \cup {calls'[c] : c \in Calls} :
         /\ (MadeNow(rec) /\ rec.this = "A") => peerNonces' = peerNonces
         /\ (MadeNow(rec) /\ rec.this = "B")
            => /\ seenNonces' = seenNonces
               /\ ReachedReplayCheck(rec)
                  => (rec.reason = "Replay detected"
                      <=> rec.p.nonce \in DOMAIN cleanupNonces(peerNonces, rec.t))]_vars

\* "A" recorded the nonce and is still in flight; "B", called later, accepted
\* the same nonce and has returned valid.
C23_Witness ==
    /\ calls["c1"].pc = "mint" /\ calls["c1"].registered
    /\ result.this = "B" /\ result.ok /\ result.p.nonce = calls["c1"].p.nonce
    /\ result.t > calls["c1"].t
    /\ seenNonces # << >> /\ peerNonces # << >>

\* C25: resolveRpcUrlForNetwork returns the first endpoint available, in the
\* order: the entry of the requested network in config; the variable of the
\* requested network in the environment; SOLANA_RPC_URL, only when the requested
\* network is the normalized SOLANA_NETWORK; the public endpoint of the
\* network.  An entry of another network is never returned.
ConfigEntry(config, network) ==
    IF ~config.given THEN NoUrl
    ELSE CASE network = "devnet" -> config.devnetRpcUrl
           [] network = "mainnet-beta" -> config.mainnetRpcUrl
           [] network = "testnet" -> config.testnetRpcUrl

EnvEntry(env, network) ==
    CASE network = "devnet" -> env.SOLANA_DEVNET_RPC_URL
      [] network = "mainnet-beta" -> env.SOLANA_MAINNET_RPC_URL
      [] network = "testnet" -> env.SOLANA_TESTNET_RPC_URL

DefaultNetwork(env) ==
    CASE env.SOLANA_NETWORK \in {"mainnet", "mainnet-beta", "MAINNET"} -> "mainnet-beta"
      [] env.SOLANA_NETWORK = "Testnet" -> "testnet"
      [] OTHER -> "devnet"

C26_ResultShape ==
    /\ result.op = "verify"
       => LET v == VerifyResult(result) IN
          /\ v.isValid <=> v.invalidReason = Null
          /\ v.isValid = result.ok
          /\ ~v.isValid => v.invalidReason = result.reason
    /\ result.op = "settle"
       => LET s == SettleResult(result, networkId) IN
          /\ s.success <=> (s.error = Null /\ s.txHash # Null)
          /\ s.success => (s.networkId = networkId /\ s.txHash = result.sig)
          /\ ~s.success => /\ s.txHash = Null /\ s.networkId = Null
                           /\ s.error # Null /\ s.error = result.reason
          /\ s.success = result.ok

\* A settle() on the pre-signed path has succeeded.
C26_Witness ==
    /\ result.op = "settle"
    /\ SettleResult(result, networkId) =
         [success |-> TRUE, error |-> Null, txHash |-> "txGood",
          networkId |-> "solana-devnet"]

\* C27: with maxTimeoutSeconds set, a verify() whose payload passes the checks
\* before the window check fails with 'Invalid validity window' exactly when
\* validBefore > now + maxTimeoutSeconds + 30: a validBefore equal to the bound
\* is accepted.  With maxTimeoutSeconds unset or 0 there is no upper bound.
C27_ValidityWindow ==
    (/\ result.op = "verify" /\ result.p # NoPayload
     /\ \A j \in 1..8 : HeaderPasses(j, result))
    => (result.reason = "Invalid validity window"
        <=> (/\ result.r.maxTimeoutSeconds # 0
             /\ result.p.validBefore
                  > result.t0 + result.r.maxTimeoutSeconds + 30))

\* A verify() whose validBefore is exactly now + maxTimeoutSeconds + 30 has
\* returned valid.
C27_Witness ==
    /\ result.op = "verify" /\ result.ok
    /\ result.r.maxTimeoutSeconds # 0
    /\ result.p.validBefore = result.t0 + result.r.maxTimeoutSeconds + 30

\* C28 as stated: after any verify() has returned, whatever its verdict and the
\* check it stopped at, the ledger holds no entry whose expiry is at or before
\* the current time.
C28_SweptAfterEveryVerify ==
    [][(result' # result /\ result'.op = "verify")
       => \A n \in DOMAIN seenNonces' : seenNonces'[n] > clock']_vars

\* C28: the sweep runs in the calls that reach the replay check.  After the
\* synchronous part of such a verify() the ledger holds no entry with an expiry
\* at or before the clock value the sweep read, but for the nonce the call
\* itself has just recorded; a verify() that stops at an earlier check leaves
\* the ledger as it was.
C28_SweptAtReplayCheck ==
    [][\A rec \in {result'} \cup {calls'[c] : c \in Calls} :
         MadeNow(rec)
         => IF ReachedReplayCheck(rec)
            THEN \A n \in DOMAIN seenNonces' :
                    \/ seenNonces'[n] > rec.t
                    \/ /\ n = rec.p.nonce /\ rec.registered
                       /\ seenNonces'[n] = rec.p.validBefore
            ELSE seenNonces' = seenNonces]_vars

\* The sweep of a verify() of one nonce has deleted the expired entry of the
\* other nonce.
C28_Witness ==
    /\ Lookup(registered, "n1") > 0 /\ "n1" \notin DOMAIN seenNonces
    /\ "n2" \in DOMAIN seenNonces
    /\ calls["c1"].pc = "mint" /\ calls["c1"].p.nonce = "n2"

\* C29: verification spends the nonce.  A nonce that a verify() has recorded
\* stays in the ledger, with the expiry recorded, as long as the clock is below
\* that expiry, whatever the verify() went on to return and whether or not a
\* settle() is called; and a verify() of that nonce that reaches the replay
\* check while its sweep reads a clock value below the expiry returns 'Replay
\* detected'.
C29_NonceSpent ==
    /\ [](\A n \in DOMAIN registered :
            registered[n] > clock
            => n \in DOMAIN seenNonces /\ seenNonces[n] = registered[n])
    /\ [][\A rec \in {result'} \cup {calls'[c] : c \in Calls} :
            (/\ MadeNow(rec)
             /\ ReachedReplayCheck(rec)
             /\ Lookup(registered, rec.p.nonce) > rec.t)
            => rec.pc = "returned" /\ rec.reason = "Replay detected"]_vars

\* No verify() of the nonce has ever returned valid, a settle() of a payload of
\* the nonce has transferred, and a verify() of the nonce before its expiry was
\* answered 'Replay detected'.
C29_Witness ==
    /\ result.op = "verify" /\ result.reason = "Replay detected"
    /\ Lookup(validReturned, result.p.nonce) = 0
    /\ Lookup(registered, result.p.nonce) > result.t
    /\ transfers # << >>

C31_BackoffBetweenAttempts ==
    /\ [](\A c \in Calls :
            /\ calls[c].attempt = 0 /\ calls[c].pc # "sleep"
               => calls[c].slept = << >>
            /\ calls[c].pc = "sleep"
               => /\ calls[c].attempt \in {0, 1}
                  /\ calls[c].slept =
                       IF calls[c].attempt = 0 THEN <<500>> ELSE <<500, 1000>>
            /\ \A d \in Calls \ {c} :
                 calls[c].pc = "sleep"
                 => /\ calls[d].pc = "idle"
                       => ENABLED SettleStart(d, SpecPayloads, SpecRequirements)
                    /\ calls[d].pc = "mint" => ENABLED MintLookup(d))
    /\ []((result.op = "settle" /\ result.p.tx # "")
          => result.slept = CASE result.attempt = 0 -> << >>
                              [] result.attempt = 1 -> <<500>>
                              [] OTHER -> <<500, 1000>>)
    /\ [][\A c \in Calls :
            (calls[c].pc \in {"send", "confirm"} /\ calls[c].attempt = 2
             /\ calls'[c] # calls[c])
            => \/ calls'[c].pc = "confirm" /\ calls'[c].slept = calls[c].slept
               \/ calls'[c].pc = "idle" /\ result'.slept = <<500, 1000>>]_vars

\* A settle() is in its second sleep while a verify() in the other slot, made
\* after the sleep began, awaits its mint lookup.
C31_Witness ==
    /\ calls["c1"].pc = "sleep" /\ calls["c1"].slept = <<500, 1000>>
    /\ calls["c2"].op = "verify" /\ calls["c2"].pc = "mint"
    /\ result.op = "settle" /\ ~result.ok /\ result.slept = <<500, 1000>>

\* C32: a verify() that is rejected before the replay check (its header does
\* not decode, or one of the checks of version, scheme, network, authorization,
\* amount, payee, asset, expiry, validity window and nonce fails) leaves the
\* nonce ledger as it was: nothing is recorded and nothing is evicted.
RejectedEarly(rec) ==
    rec.reason \in HeaderReasons \cup {"Cannot read properties of null"}

C32_RejectedLeavesLedger ==
    [][\A rec \in {result'} \cup {calls'[c] : c \in Calls} :
         (MadeNow(rec) /\ RejectedEarly(rec))
         => /\ seenNonces' = seenNonces
            /\ ~rec.registered /\ rec.pc = "returned"]_vars

\* A verify() was rejected for its validity window, and the ledger still holds
\* the expired entry of another nonce.
C32_Witness ==
    /\ result.op = "verify" /\ result.reason = "Invalid validity window"
    /\ "n2" \in DOMAIN seenNonces /\ seenNonces["n2"] <= clock

\* C33: the verdict of verify() does not depend on the payer.  Of two
\* facilitators in the same state, one given a payload and the other a payload
\* that differs from it only in authorization.from and in the source account
\* and signer of its transaction, both return the same verdict and reason when
\* no ledger lookup faults, and their ledgers end equal: the payer of the
\* authorization is not compared with the source or signer of the transaction.
C33_PayerIndependent ==
    /\ [][(/\ result.op = "verify" /\ result.this = "A"
           /\ result'.this = "B"
           /\ ~LookupFault(result) /\ ~LookupFault(result'))
          => /\ result'.p \in Twins(result.p)
             /\ result'.ok = result.ok
             /\ result'.reason = result.reason
             /\ result'.registered = result.registered]_vars
    /\ []((result.this = "B" /\ \A c \in Calls : calls[c].pc = "idle")
          => peerNonces = seenNonces)

\* A payload whose authorization names payer "A" and whose transaction is
\* signed by "E", from the token account of "E", was returned valid.
C33_Witness ==
    /\ result.op = "verify" /\ result.this = "B" /\ result.ok
    /\ result.p.from = "A" /\ result.p.tx = "txGoodE"
    /\ Transactions[result.p.tx].instructions[1].keys = <<"ataE", "ataP", "E">>

\* The settle() calls of the state: the one in flight and the one that returned.
SettleRecords == {rec \in {calls["c1"], result} : rec.op = "settle"}

\* What executeUSDCTransfer throws before it reaches the ledger.
LocalCauses ==
    {"No authorization found in payment payload",
     "Transaction deserialization failed",
     "Agent wallet not initialized (required for legacy flow)",
     "Invalid public key input"}

\* What a call that reached the ledger fails with.
LedgerCauses ==
    {"Signature verification failed", "send failed", "confirmation failed",
     "failed to get info about account", "Insufficient USDC balance",
     "transfer failed"}

\* The payload alone makes executeUSDCTransfer go to the ledger.
Submittable(p, wallet) ==
    /\ p.hasAuth
    /\ IF p.tx # "" THEN Transactions[p.tx].deser
       ELSE wallet /\ IsPublicKey(p.to)

\* verify() would reject p against r now, or has not returned it valid.
Unverified(p, r) ==
    \/ HeaderChecks(p, r, networkId, clock) # ""
    \/ p.nonce \in DOMAIN seenNonces
    \/ Lookup(validReturned, p.nonce) = 0

StartedCall == IF calls'["c1"].pc = "idle" THEN result' ELSE calls'["c1"]

\* C35: right after a verify() registers a nonce, the ledger maps the nonce to
\* the validBefore of that call; and an entry of the ledger keeps its expiry
\* for as long as it is there: a step removes it, or replaces its expiry, only
\* by the sweep of a verify() that read a time not before that expiry.
C35_ExpiryKept ==
    /\ [][(calls["c1"].pc = "idle" /\ StartedCall.op = "verify"
           /\ StartedCall.registered)
          => /\ StartedCall.p.nonce \in DOMAIN seenNonces'
             /\ seenNonces'[StartedCall.p.nonce] = StartedCall.p.validBefore]_vars
    /\ [][\A n \in DOMAIN seenNonces :
            (n \notin DOMAIN seenNonces' \/ seenNonces'[n] # seenNonces[n])
            => /\ calls["c1"].pc = "idle" /\ StartedCall.op = "verify"
               /\ StartedCall.t >= seenNonces[n]
               /\ (n \in DOMAIN seenNonces' => StartedCall.registered
                                                /\ StartedCall.p.nonce = n)]_vars

\* A nonce registered with expiry 1 is in the ledger with that expiry at time 1,
\* after a verify() of the same nonce with a later validBefore was rejected as
\* a replay and a verify() of another nonce was registered.
C35_Witness ==
    /\ clock = 1 /\ DOMAIN seenNonces = {"n1", "n2"}
    /\ seenNonces["n1"] = 1 /\ seenNonces["n2"] = MaxTime
    /\ result.op = "verify" /\ result.reason = "Replay detected"
    /\ result.p.nonce = "n1" /\ result.p.validBefore > 1

\* C36: on() starts polling whenever polling is not running and never starts a
\* second timer: when the last call of on() and stop() was an on(), exactly one
\* polling timer is running, and never more than one.
C36_OnePollingTimer ==
    /\ Cardinality(timers.running) <= 1
    /\ wrapper.lastCall = "on" => Cardinality(timers.running) = 1

\* C37: every item a poll fetched was passed to a handler: a message to a
\* message handler, a delivery to a delivery handler.
C37_NoItemLost ==
    \A item \in polls.fetched :
       \E h \in Range(IF item[1] = "message" THEN wrapper.messageHandlers
                      ELSE wrapper.deliveryHandlers) :
          <<item, h>> \in polls.handled

\* C38: a startConversation() made before any init() fails and has no effect.
\* Once it has ended it has thrown, the 'not initialized' error unless a
\* request failed; and no step of it creates a conversation on the backend or
\* changes the merchant wallet of the settlement agent.
C38_NoEffectBeforeInit ==
    /\ []((consumer.op = "startConversation" /\ consumer.pc = "idle"
           /\ ~consumer.initBefore)
          => consumer.error \in {NotInitialized, RequestFailed})
    /\ [][(consumer.op = "startConversation" /\ consumer.pc # "idle"
           /\ ~consumer.initBefore)
          => /\ marketplace'.conversations = marketplace.conversations
             /\ consumer'.merchantWallet = consumer.merchantWallet]_vars

\* A handleRequest() call has ended.
Answered == a2aServer.requests > 0 /\ a2aServer.pc = "idle"

\* C39: handleRequest never throws and answers with the id of the request: the
\* error -32601 and no result, no handler invoked, for a method without a
\* handler; the error -32603 and no result when the handler threw; the result
\* of the handler and no error otherwise.  No step of it changes the tasks.
C39_AlwaysAnswers ==
    /\ [](Answered =>
            /\ a2aServer.response.threw = ""
            /\ a2aServer.response.id = a2aServer.request.id
            /\ a2aServer.outcome.kind = "none" =>
                 /\ a2aServer.response.error.code = MethodNotFound
                 /\ a2aServer.response.result = Absent
            /\ a2aServer.outcome.kind = "throws" =>
                 /\ a2aServer.response.error.code = InternalError
                 /\ a2aServer.response.result = Absent
            /\ a2aServer.outcome.kind = "returns" =>
                 /\ a2aServer.response.error = NoError
                 /\ a2aServer.response.result = a2aServer.outcome.value)
    /\ [][(a2aServer'.requests # a2aServer.requests
           /\ a2aServer'.request.method \notin a2aServer.handlers)
          => a2aServer'.invoked = a2aServer.invoked]_vars
    /\ [][(a2aServer'.requests # a2aServer.requests
           \/ a2aServer'.pc # a2aServer.pc)
          => a2aServer'.tasks = a2aServer.tasks]_vars

\* C40: once stop() has returned, and until the next start(), no poll for
\* messages or for orders is started.
C40_NoPollAfterStop ==
    [][provider.lastCall = "stop" => provider'.requests = provider.requests]_vars

====
